---- MODULE Spec2Model ----
(***************************************************************************)
(* A model of svg_renderer: the path-data interpreter                      *)
(* (Renderer._parse_path_data), the style cascade (StyleParser), the       *)
(* viewport arithmetic (SVGParser) and the render calls of SVGRenderer.    *)
(*                                                                         *)
(* Python exceptions are modelled by the name of their class; "none" means *)
(* that no exception was raised.  Token positions are 0-based as in the    *)
(* source; Tok(toks, k) reads tokens[k].  The numbers of a path string are *)
(* integers.  None is the empty sequence, a present value v is <<v>>.      *)
(***************************************************************************)
EXTENDS Integers, Sequences, FiniteSets, TLC

VARIABLES
    \* ---- Renderer._parse_path_data ----
    path_data,        \* the d attribute, as a sequence of lexemes
    tokens,           \* the result of re.findall
    i,                \* the token position
    current_x,
    current_y,
    current_command,  \* "None" or a command letter
    context_path,     \* the calls issued to the cairo context, in order
    perr,             \* the exception that ended the interpretation
    ppc,              \* "idle", "start", "loop", "done", "error"
    \* ---- SVGRenderer: the render and export calls ----
    method,           \* the method called
    doc,              \* the layers of the document, in document order
    layer_names,      \* the layers the call asks for
    viewbox,          \* SVGParser.get_viewbox()
    unit,             \* SVGParser.get_document_unit()
    dpi,              \* <<>> for None, <<d>> for a resolution d
    elements,         \* the elements extracted for the call
    renderer,         \* <<>> or <<[width, height]>>: the Renderer instance
    calls,            \* the calls issued to the cairo context, in order
    next_el,          \* the position of render_elements in elements
    png,              \* <<>> or <<[width, height]>>: the file written
    svg_file,         \* <<>> or <<groups>>: the SVG file written
    warned,           \* the warning was printed
    rerr,             \* the exception that ended the call
    rmsg,             \* the message of that exception, for a layer not found
    rpc,              \* "idle", "start", "create", "render", "done", "error"
    \* ---- StyleParser ----
    style_attr,       \* the style attribute of the element, a sequence of symbols
    attrs,            \* the presentation attributes: name -> <<>> or <<value>>
    style_dict,       \* _style_dict: <<>> for None, <<map>> once parsed
    fill_opacity,     \* <<>> or <<fraction>>: what get_fill_opacity returned
    stroke_opacity,   \* <<>> or <<fraction>>: what get_stroke_opacity returned
    stroke_width,     \* <<>> or <<fraction>>: what get_stroke_width_value returned
    serr,             \* the exception raised by the last StyleParser call
    spc,              \* "idle", "new", "parsed"
    \* ---- StyleParser.get_color ----
    color_str,        \* the argument, a sequence of characters
    color,            \* <<>> or <<c>>: what get_color returned; c is <<>> for
                      \* None and <<<<r, g, b>>>> for a tuple of floats
    cerr,             \* the exception get_color raised
    cpc,              \* "idle", "new", "done"
    \* ---- SVGParser ----
    svg,              \* the attributes of the root element of the file
    root,             \* <<>> for None, <<attributes>> once load_svg has run
    vb_out,           \* <<>> or <<viewbox>>: what get_viewbox returned
    unit_out,         \* <<>> or <<unit>>: what get_document_unit returned
    size_out,         \* <<>> or <<[dpi, width, height]>>: calculate_pixel_size
    scale_out,        \* <<>> or <<[dpi, scale]>>: calculate_scale
    verr,             \* the exception of the last SVGParser call: [type, msg]
    vcall             \* the name of the last SVGParser call

pathVars == <<path_data, tokens, i, current_x, current_y, current_command,
              context_path, perr, ppc>>

renderVars == <<method, doc, layer_names, viewbox, unit, dpi, elements, renderer,
                calls, next_el, png, svg_file, warned, rerr, rmsg, rpc>>

styleVars == <<style_attr, attrs, style_dict, fill_opacity, stroke_opacity,
               stroke_width, serr, spc>>

colorVars == <<color_str, color, cerr, cpc>>

parserVars == <<svg, root, vb_out, unit_out, size_out, scale_out, verr,
                vcall>>

vars == <<pathVars, renderVars, styleVars, colorVars, parserVars>>

(***************************************************************************)
(* Bounds                                                                  *)
(***************************************************************************)
MaxLen == 4        \* longest path string of the exhaustive family, in lexemes
MaxCoord == 2      \* numbers of a path string of that family are 1..MaxCoord
MaxArgs == 7       \* most numbers after the letter of a one-command string
MaxElems == 2      \* most elements of a document
MaxStyleLen == 3   \* longest style attribute, in symbols
MaxOpacityLen == 4 \* longest opacity string, in characters
MaxColorLen == 4   \* longest colour string of the exhaustive family

(***************************************************************************)
(* Lexemes and tokens                                                      *)
(***************************************************************************)
CommandLetters == {"M", "m", "L", "l", "C", "c", "Z", "z"}

Nums == 1..MaxCoord

Cmd(letter) == [k |-> letter, n |-> 0]

Num(v) == [k |-> "num", n |-> v]

\* "H" is an unsupported command letter (H, V, Q, A, S, T): text the token
\* pattern does not match, which findall drops. The separators between two
\* lexemes, dropped likewise, are not written.
Other == [k |-> "H", n |-> 0]

Lexemes == {Cmd(l) : l \in CommandLetters} \cup {Num(v) : v \in Nums} \cup {Other}

IsCommand(tok) == tok.k \in CommandLetters

Tokenize(data) == SelectSeq(data, LAMBDA lx : lx.k \in CommandLetters \cup {"num"})

Tok(toks, k) == toks[k + 1]

SetMin(S) == CHOOSE m \in S : \A o \in S : m <= o

(***************************************************************************)
(* The loop body of _parse_path_data, one operator per branch, over a      *)
(* cursor [i, x, y, cmd, out, err].                                        *)
(***************************************************************************)
Prim(op, args, pos) == [op |-> op, a |-> args, at |-> pos]

\* float(tokens[i + d]) for d = 1 .. arity-1, in order: the first read that
\* fails decides the exception. tokens[i] itself is a number here.
ArgErr(toks, pos, arity) ==
    LET bad == {d \in 1..(arity - 1) :
                    \/ pos + d >= Len(toks)
                    \/ IsCommand(Tok(toks, pos + d))}
    IN  IF bad = {} THEN "none"
        ELSE IF pos + SetMin(bad) >= Len(toks) THEN "IndexError"
        ELSE "ValueError"

DoCommand(toks, c) ==
    [c EXCEPT !.cmd = Tok(toks, c.i).k, !.i = @ + 1]

\* DoMove without the change of the active command to L/l.
DoMove_KeepsCommand(toks, c) ==
    LET e == ArgErr(toks, c.i, 2) IN
    IF e # "none" THEN [c EXCEPT !.err = e]
    ELSE LET x == Tok(toks, c.i).n
             y == Tok(toks, c.i + 1).n
             nx == IF c.cmd = "M" THEN x ELSE c.x + x
             ny == IF c.cmd = "M" THEN y ELSE c.y + y
         IN  [c EXCEPT !.x = nx, !.y = ny,
                       !.out = Append(@, Prim("move_to", <<nx, ny>>, c.i)),
                       !.i = @ + 2]

DoMove(toks, c) ==
    LET e == ArgErr(toks, c.i, 2) IN
    IF e # "none" THEN [c EXCEPT !.err = e]
    ELSE LET x == Tok(toks, c.i).n
             y == Tok(toks, c.i + 1).n
             nx == IF c.cmd = "M" THEN x ELSE c.x + x
             ny == IF c.cmd = "M" THEN y ELSE c.y + y
         IN  [c EXCEPT !.x = nx, !.y = ny,
                       !.out = Append(@, Prim("move_to", <<nx, ny>>, c.i)),
                       !.i = @ + 2,
                       !.cmd = IF c.cmd = "M" THEN "L" ELSE "l"]

\* DoLine that takes the pair of a relative line as absolute.
DoLine_Absolute(toks, c) ==
    LET e == ArgErr(toks, c.i, 2) IN
    IF e # "none" THEN [c EXCEPT !.err = e]
    ELSE LET x == Tok(toks, c.i).n
             y == Tok(toks, c.i + 1).n
         IN  [c EXCEPT !.x = x, !.y = y,
                       !.out = Append(@, Prim("line_to", <<x, y>>, c.i)),
                       !.i = @ + 2]

DoLine(toks, c) ==
    LET e == ArgErr(toks, c.i, 2) IN
    IF e # "none" THEN [c EXCEPT !.err = e]
    ELSE LET x == Tok(toks, c.i).n
             y == Tok(toks, c.i + 1).n
             nx == IF c.cmd = "L" THEN x ELSE c.x + x
             ny == IF c.cmd = "L" THEN y ELSE c.y + y
         IN  [c EXCEPT !.x = nx, !.y = ny,
                       !.out = Append(@, Prim("line_to", <<nx, ny>>, c.i)),
                       !.i = @ + 2]

\* DoCurve that offsets the pairs of a relative curve cumulatively.
DoCurve_Cumulative(toks, c) ==
    LET e == ArgErr(toks, c.i, 6) IN
    IF e # "none" THEN [c EXCEPT !.err = e]
    ELSE LET x1 == Tok(toks, c.i).n
             y1 == Tok(toks, c.i + 1).n
             x2 == Tok(toks, c.i + 2).n
             y2 == Tok(toks, c.i + 3).n
             x == Tok(toks, c.i + 4).n
             y == Tok(toks, c.i + 5).n
         IN  IF c.cmd = "C"
             THEN [c EXCEPT !.out = Append(@, Prim("curve_to",
                                        <<x1, y1, x2, y2, x, y>>, c.i)),
                            !.x = x, !.y = y, !.i = @ + 6]
             ELSE [c EXCEPT !.out = Append(@, Prim("curve_to",
                                        <<c.x + x1, c.y + y1,
                                          c.x + x1 + x2, c.y + y1 + y2,
                                          c.x + x1 + x2 + x,
                                          c.y + y1 + y2 + y>>, c.i)),
                            !.x = @ + x1 + x2 + x, !.y = @ + y1 + y2 + y,
                            !.i = @ + 6]

DoCurve(toks, c) ==
    LET e == ArgErr(toks, c.i, 6) IN
    IF e # "none" THEN [c EXCEPT !.err = e]
    ELSE LET x1 == Tok(toks, c.i).n
             y1 == Tok(toks, c.i + 1).n
             x2 == Tok(toks, c.i + 2).n
             y2 == Tok(toks, c.i + 3).n
             x == Tok(toks, c.i + 4).n
             y == Tok(toks, c.i + 5).n
         IN  IF c.cmd = "C"
             THEN [c EXCEPT !.out = Append(@, Prim("curve_to",
                                        <<x1, y1, x2, y2, x, y>>, c.i)),
                            !.x = x, !.y = y, !.i = @ + 6]
             ELSE [c EXCEPT !.out = Append(@, Prim("curve_to",
                                        <<c.x + x1, c.y + y1, c.x + x2,
                                          c.y + y2, c.x + x, c.y + y>>, c.i)),
                            !.x = @ + x, !.y = @ + y, !.i = @ + 6]

\* DoClose that leaves the token position where it is.
\* DoClose that moves the current point back to the start of the subpath.
DoClose_ToStart(toks, c) ==
    [c EXCEPT !.out = Append(@, Prim("close_path", <<>>, c.i)),
              !.i = @ + 1,
              !.x = IF \E k \in DOMAIN c.out : c.out[k].op = "move_to"
                    THEN c.out[CHOOSE k \in DOMAIN c.out :
                                   /\ c.out[k].op = "move_to"
                                   /\ \A o \in DOMAIN c.out :
                                         c.out[o].op = "move_to" => o <= k].a[1]
                    ELSE 0,
              !.y = IF \E k \in DOMAIN c.out : c.out[k].op = "move_to"
                    THEN c.out[CHOOSE k \in DOMAIN c.out :
                                   /\ c.out[k].op = "move_to"
                                   /\ \A o \in DOMAIN c.out :
                                         c.out[o].op = "move_to" => o <= k].a[2]
                    ELSE 0,
              !.cmd = "None"]

DoClose_Stays(toks, c) ==
    [c EXCEPT !.out = Append(@, Prim("close_path", <<>>, c.i)),
              !.cmd = "None"]

DoClose(toks, c) ==
    [c EXCEPT !.out = Append(@, Prim("close_path", <<>>, c.i)),
              !.i = @ + 1,
              !.cmd = "None"]

\* DoSkip that draws a line to the number it skips.
DoSkip_Draws(toks, c) ==
    [c EXCEPT !.out = Append(@, Prim("line_to",
                                     <<Tok(toks, c.i).n, Tok(toks, c.i).n>>,
                                     c.i)),
              !.i = @ + 1]

DoSkip(toks, c) ==
    [c EXCEPT !.i = @ + 1]

\* One iteration of the while loop.
Iterate(toks, c) ==
    IF IsCommand(Tok(toks, c.i)) THEN DoCommand(toks, c)
    ELSE IF c.cmd \in {"M", "m"} THEN DoMove(toks, c)
    ELSE IF c.cmd \in {"L", "l"} THEN DoLine(toks, c)
    ELSE IF c.cmd \in {"C", "c"} THEN DoCurve(toks, c)
    ELSE IF c.cmd \in {"Z", "z"} THEN DoClose(toks, c)
    ELSE DoSkip(toks, c)

StartCursor ==
    [i |-> 0, x |-> 0, y |-> 0, cmd |-> "None", out |-> <<>>, err |-> "none"]

RECURSIVE RunFrom(_, _)
RunFrom(toks, c) ==
    IF c.err # "none" \/ c.i >= Len(toks) THEN c
    ELSE RunFrom(toks, Iterate(toks, c))

\* The whole of _parse_path_data on a string: the final cursor.
parse_path_data(data) == RunFrom(Tokenize(data), StartCursor)

(***************************************************************************)
(* The interpreter as a state machine, one step per loop iteration.        *)
(***************************************************************************)
Cursor ==
    [i |-> i, x |-> current_x, y |-> current_y, cmd |-> current_command,
     out |-> context_path, err |-> perr]

SetCursor(c) ==
    /\ i' = c.i
    /\ current_x' = c.x
    /\ current_y' = c.y
    /\ current_command' = c.cmd
    /\ context_path' = c.out
    /\ perr' = c.err
    /\ ppc' = IF c.err # "none" THEN "error" ELSE "loop"
    /\ UNCHANGED <<path_data, tokens>>
    /\ UNCHANGED <<renderVars, styleVars, colorVars, parserVars>>

\* The path strings of the initial states: every string of at most MaxLen
\* lexemes without a curve letter, and the strings made of a head, a command
\* letter followed by up to MaxArgs numbers, and a tail.
ShortLexemes == Lexemes \ {Cmd("C"), Cmd("c")}

ShortPaths == UNION {[1..n -> ShortLexemes] : n \in 0..MaxLen}

CommandHeads == {<<>>, <<Cmd("M"), Num(2), Num(1)>>, <<Cmd("m"), Num(1), Num(2)>>}

CommandTails ==
    {<<>>, <<Cmd("z")>>, <<Cmd("l"), Num(1), Num(2)>>,
     <<Cmd("c"), Num(1), Num(2), Num(2), Num(1), Num(1), Num(1)>>}

CommandPaths ==
    {h \o <<Cmd(l)>> \o [k \in DOMAIN a |-> Num(a[k])] \o t :
        h \in CommandHeads, l \in CommandLetters \ {"Z", "z"},
        a \in UNION {[1..m -> {1, 2}] : m \in 0..MaxArgs},
        t \in CommandTails}

\* Paths with a close: a move, possibly a line, a Z or z followed by up to
\* two numbers, and a command after it.
ClosePaths ==
    {h \o l \o <<Cmd(z)>> \o n \o t :
        h \in CommandHeads \ {<<>>},
        l \in {<<>>, <<Cmd("L"), Num(1), Num(2)>>, <<Cmd("l"), Num(1), Num(1)>>},
        z \in {"Z", "z"},
        n \in {<<>>, <<Num(1)>>, <<Num(1), Num(2)>>},
        t \in CommandTails \cup {<<Cmd("m"), Num(1), Num(1)>>,
                                 <<Cmd("L"), Num(2), Num(2)>>}}

\* The variables of a component that takes no part in a specification.
PathIdle ==
    /\ path_data = <<>>
    /\ tokens = <<>>
    /\ i = 0
    /\ current_x = 0
    /\ current_y = 0
    /\ current_command = "None"
    /\ context_path = <<>>
    /\ perr = "none"
    /\ ppc = "idle"

RenderIdle ==
    /\ method = "none"
    /\ doc = <<>>
    /\ layer_names = <<>>
    /\ viewbox = <<>>
    /\ unit = "px"
    /\ dpi = <<>>
    /\ elements = <<>>
    /\ renderer = <<>>
    /\ calls = <<>>
    /\ next_el = 0
    /\ png = <<>>
    /\ svg_file = <<>>
    /\ warned = FALSE
    /\ rerr = "none"
    /\ rmsg = <<>>
    /\ rpc = "idle"

StyleIdle ==
    /\ style_attr = <<>>
    /\ attrs = <<>>
    /\ style_dict = <<>>
    /\ fill_opacity = <<>>
    /\ stroke_opacity = <<>>
    /\ stroke_width = <<>>
    /\ serr = "none"
    /\ spc = "idle"

ColorIdle ==
    /\ color_str = <<>>
    /\ color = <<>>
    /\ cerr = "none"
    /\ cpc = "idle"

ParserIdle ==
    /\ svg = <<>>
    /\ root = <<>>
    /\ vb_out = <<>>
    /\ unit_out = <<>>
    /\ size_out = <<>>
    /\ scale_out = <<>>
    /\ verr = [type |-> "none", msg |-> ""]
    /\ vcall = "none"

InitPath ==
    /\ path_data \in ShortPaths \cup CommandPaths \cup ClosePaths
    /\ tokens = <<>>
    /\ i = 0
    /\ current_x = 0
    /\ current_y = 0
    /\ current_command = "None"
    /\ context_path = <<>>
    /\ perr = "none"
    /\ ppc = "start"
    /\ RenderIdle
    /\ StyleIdle
    /\ ColorIdle
    /\ ParserIdle

FindAll ==
    /\ ppc = "start"
    /\ tokens' = Tokenize(path_data)
    /\ ppc' = "loop"
    /\ UNCHANGED <<path_data, i, current_x, current_y, current_command,
                   context_path, perr>>
    /\ UNCHANGED <<renderVars, styleVars, colorVars, parserVars>>

InLoop == ppc = "loop" /\ i < Len(tokens)

StepCommand ==
    /\ InLoop
    /\ IsCommand(Tok(tokens, i))
    /\ SetCursor(DoCommand(tokens, Cursor))

StepMove ==
    /\ InLoop
    /\ ~IsCommand(Tok(tokens, i))
    /\ current_command \in {"M", "m"}
    /\ SetCursor(DoMove(tokens, Cursor))

StepLine ==
    /\ InLoop
    /\ ~IsCommand(Tok(tokens, i))
    /\ current_command \in {"L", "l"}
    /\ SetCursor(DoLine(tokens, Cursor))

StepCurve ==
    /\ InLoop
    /\ ~IsCommand(Tok(tokens, i))
    /\ current_command \in {"C", "c"}
    /\ SetCursor(DoCurve(tokens, Cursor))

StepClose ==
    /\ InLoop
    /\ ~IsCommand(Tok(tokens, i))
    /\ current_command \in {"Z", "z"}
    /\ SetCursor(DoClose(tokens, Cursor))

StepSkip ==
    /\ InLoop
    /\ ~IsCommand(Tok(tokens, i))
    /\ current_command = "None"
    /\ SetCursor(DoSkip(tokens, Cursor))

LoopExit ==
    /\ ppc = "loop"
    /\ i >= Len(tokens)
    /\ ppc' = "done"
    /\ UNCHANGED <<path_data, tokens, i, current_x, current_y,
                   current_command, context_path, perr>>
    /\ UNCHANGED <<renderVars, styleVars, colorVars, parserVars>>

NextPath ==
    \/ FindAll
    \/ StepCommand
    \/ StepMove
    \/ StepLine
    \/ StepCurve
    \/ StepClose
    \/ StepSkip
    \/ LoopExit

SpecPath == InitPath /\ [][NextPath]_vars

(***************************************************************************)
(* Properties of the path interpreter.  A call of context_path carries the *)
(* position `at` of the token at which it was issued.                      *)
(***************************************************************************)
Positions(toks) == 0..(Len(toks) - 1)

\* The position of the command letter that governs position j.
LetterBefore(toks, j) ==
    LET ps == {p \in Positions(toks) : p < j /\ IsCommand(Tok(toks, p))}
    IN  CHOOSE p \in ps : \A q \in ps : q <= p

\* The first position after p that holds a command letter, or the length.
NextLetter(toks, p) ==
    SetMin({q \in Positions(toks) : q > p /\ IsCommand(Tok(toks, q))}
           \cup {Len(toks)})

\* The point reached by the first k calls of out.
RECURSIVE EndPoint(_, _)
EndPoint(out, k) ==
    IF k = 0 THEN <<0, 0>>
    ELSE IF out[k].op = "close_path" THEN EndPoint(out, k - 1)
    ELSE <<out[k].a[Len(out[k].a) - 1], out[k].a[Len(out[k].a)]>>

\* The numbers at positions j .. j+n-1.
Numbers(toks, j, n) == [d \in 1..n |-> Tok(toks, j + d - 1).n]

\* Every pair of coords offset by the point pt.
Offset(coords, pt) ==
    [d \in DOMAIN coords |-> coords[d] + IF d % 2 = 1 THEN pt[1] ELSE pt[2]]

ClosePositions(toks) == {p \in Positions(toks) : Tok(toks, p).k \in {"Z", "z"}}

\* C1: when interpretation has ended, every Z/z token has exactly one
\* close_path call of its own, placed after the calls of the tokens before
\* it and before the calls of the tokens after it.
C1_ClosePathPerZ ==
    ppc = "done" =>
        \A p \in ClosePositions(tokens) :
            \E k \in DOMAIN context_path :
                /\ context_path[k].op = "close_path"
                /\ context_path[k].at \in p..NextLetter(tokens, p)
                /\ \A o \in DOMAIN context_path :
                      /\ o < k => context_path[o].at < p
                      /\ o > k => context_path[o].at > p

MoveLetters(toks) == {p \in Positions(toks) : Tok(toks, p).k \in {"M", "m"}}

\* C5: a call issued under an M (m) letter is a move_to for the first pair
\* after the letter and a line_to for every further pair, with the pair taken
\* absolutely (added to the point reached so far); no move_to is issued
\* under another letter; and once interpretation has ended, every pair after
\* the letter has its call.
C5_ImplicitLineTo ==
    /\ \A k \in DOMAIN context_path :
          LET pr == context_path[k]
              p == LetterBefore(tokens, pr.at)
              pair == Numbers(tokens, pr.at, 2)
          IN  /\ pr.op = "move_to" => Tok(tokens, p).k \in {"M", "m"}
              /\ (pr.op # "close_path" /\ Tok(tokens, p).k \in {"M", "m"}) =>
                    /\ pr.op = IF pr.at = p + 1 THEN "move_to" ELSE "line_to"
                    /\ pr.a = IF Tok(tokens, p).k = "M" THEN pair
                              ELSE Offset(pair, EndPoint(context_path, k - 1))
    /\ ppc = "done" =>
          \A p \in MoveLetters(tokens) :
              {context_path[k].at : k \in {o \in DOMAIN context_path :
                    /\ context_path[o].at > p
                    /\ context_path[o].at < NextLetter(tokens, p)}}
              = {q \in (p + 1)..(NextLetter(tokens, p) - 1) : (q - p) % 2 = 1}

\* C5 witness: an M or m letter followed by at least two pairs was interpreted
\* to the end.
C5_Witness ==
    /\ ppc = "done"
    /\ \E p \in MoveLetters(tokens) :
          /\ NextLetter(tokens, p) >= p + 5
          /\ \E k \in DOMAIN context_path :
                context_path[k].op = "line_to" /\ context_path[k].at = p + 3

RelativeLetters == {"m", "l", "c", "z"}

Arity(letter) ==
    IF letter \in {"C", "c"} THEN 6 ELSE IF letter \in {"Z", "z"} THEN 0 ELSE 2

\* A path of relative commands: it starts with a letter, every letter is one
\* of m, l, c, z, and each is followed by whole coordinate groups (at least
\* one for m, l, c; no number for z).
IsRelativePath(toks) ==
    /\ Len(toks) > 0
    /\ IsCommand(Tok(toks, 0))
    /\ \A p \in Positions(toks) :
          IsCommand(Tok(toks, p)) =>
             LET n == NextLetter(toks, p) - p - 1
                 letter == Tok(toks, p).k
             IN  /\ letter \in RelativeLetters
                 /\ IF letter = "z" THEN n = 0
                    ELSE n > 0 /\ n % Arity(letter) = 0

Upper(letter) ==
    CASE letter = "m" -> "M"
      [] letter = "l" -> "L"
      [] letter = "c" -> "C"
      [] letter = "z" -> "Z"
      [] OTHER -> letter

\* The absolute path of a relative path: each letter in upper case, each
\* coordinate group added to the point at which its command is processed.
RECURSIVE AbsoluteFrom(_, _, _, _)
AbsoluteFrom(toks, p, letter, pt) ==
    IF p >= Len(toks) THEN <<>>
    ELSE IF IsCommand(Tok(toks, p))
    THEN <<Cmd(Upper(Tok(toks, p).k))>>
         \o AbsoluteFrom(toks, p + 1, Tok(toks, p).k, pt)
    ELSE LET n == Arity(letter)
             group == Offset(Numbers(toks, p, n), pt)
         IN  [d \in 1..n |-> Num(group[d])]
             \o AbsoluteFrom(toks, p + n, letter, <<group[n - 1], group[n]>>)

ToAbsolute(toks) == AbsoluteFrom(toks, 0, "None", <<0, 0>>)

\* C6: a path of relative commands issues the same calls as its absolute
\* path.
C6_RelativeEqualsAbsolute ==
    (ppc = "done" /\ IsRelativePath(tokens)) =>
        /\ RunFrom(ToAbsolute(tokens), StartCursor).err = "none"
        /\ RunFrom(ToAbsolute(tokens), StartCursor).out = context_path

\* C6 witness: a relative path with a line or a curve that starts away from
\* the origin was interpreted to the end.
C6_Witness ==
    /\ ppc = "done"
    /\ IsRelativePath(tokens)
    /\ \E k \in DOMAIN context_path :
          /\ context_path[k].op \in {"line_to", "curve_to"}
          /\ EndPoint(context_path, k - 1) # <<0, 0>>

\* C7: a curve_to call is issued under C or c at a whole number of groups of
\* six after the letter, from six numbers; under C it carries them as they
\* are, under c each of the three pairs offset by the point reached before
\* the curve; the interpreter has then moved on by six tokens, and its
\* current point is the end point of the last call.
C7_CurveTo ==
    /\ <<current_x, current_y>> = EndPoint(context_path, Len(context_path))
    /\ \A k \in DOMAIN context_path :
          LET pr == context_path[k]
              p == LetterBefore(tokens, pr.at)
              six == Numbers(tokens, pr.at, 6)
          IN  pr.op = "curve_to" =>
                /\ Tok(tokens, p).k \in {"C", "c"}
                /\ (pr.at - p - 1) % 6 = 0
                /\ pr.at + 5 < NextLetter(tokens, p)
                /\ pr.a = IF Tok(tokens, p).k = "C" THEN six
                          ELSE Offset(six, EndPoint(context_path, k - 1))
                /\ IF k < Len(context_path)
                   THEN context_path[k + 1].at >= pr.at + 6
                   ELSE i >= pr.at + 6
                /\ \A o \in DOMAIN context_path :
                      o # k => context_path[o].at \notin pr.at..(pr.at + 5)

\* C7 witness: two curves under one c letter, the first starting away from
\* the origin, were interpreted to the end.
C7_Witness ==
    /\ ppc = "done"
    /\ \E k \in DOMAIN context_path :
          /\ k > 1
          /\ k < Len(context_path)
          /\ context_path[k].op = "curve_to"
          /\ context_path[k + 1].op = "curve_to"
          /\ Tok(tokens, LetterBefore(tokens, context_path[k + 1].at)).k = "c"
          /\ EndPoint(context_path, k - 1) # <<0, 0>>

\* The exception class this package raises for invalid input.
MalformedPathData == "ValueError"

\* Some M/m/L/l/C/c letter is followed by numbers that do not fill whole
\* coordinate groups.
InsufficientCoordinates(toks) ==
    \E p \in Positions(toks) :
        /\ Tok(toks, p).k \in CommandLetters \ {"Z", "z"}
        /\ (NextLetter(toks, p) - p - 1) % Arity(Tok(toks, p).k) # 0

\* C8: a path in which a command lacks numbers for its arity ends with the
\* MalformedPathData error, and no call is built from an incomplete group.
C8_MalformedPathData ==
    (ppc \in {"done", "error"} /\ InsufficientCoordinates(tokens)) =>
        /\ ppc = "error"
        /\ perr = MalformedPathData
        /\ \A k \in DOMAIN context_path :
              context_path[k].op # "close_path" =>
                 context_path[k].at + Len(context_path[k].a)
                    <= NextLetter(tokens, LetterBefore(tokens, context_path[k].at))

(***************************************************************************)
(* SVGParser: the viewport arithmetic.  A float is an exact fraction       *)
(* [n, d], as Float returns it; a resolution is a positive integer.        *)
(***************************************************************************)
\* unit_to_inches, as fractions of an inch.
unit_to_inches(u) ==
    CASE u = "px" -> <<1, 96>>
      [] u = "pt" -> <<1, 72>>
      [] u = "pc" -> <<1, 6>>
      [] u = "mm" -> <<10, 254>>
      [] u = "cm" -> <<100, 254>>
      [] u = "in" -> <<1, 1>>
      [] OTHER -> <<1, 96>>

\* int(round(n / d)) for d > 0, as a set. The code rounds a product of
\* floats: off a tie the result is the nearest integer, and at an exact tie
\* the product of floats may fall on either side of it (7 * (1.0 / 96.0) * 48
\* is 3.4999999999999996), so either neighbour may be the result.
Round(n, d) ==
    LET q == n \div d
        r == n % d
    IN  IF 2 * r < d THEN {q}
        ELSE IF 2 * r > d THEN {q + 1}
        ELSE {q, q + 1}

\* int(round(v * ...)) raises for a float that is not finite.
NotFinite(v) ==
    IF v.n = 0
    THEN [type |-> "ValueError", msg |-> "cannot convert float NaN to integer"]
    ELSE [type |-> "OverflowError",
          msg |-> "cannot convert float infinity to integer"]

\* calculate_pixel_size with int() in place of int(round()).
calculate_pixel_size_Truncates(vb, u, d) ==
    LET f == unit_to_inches(u)
    IN  IF vb[3].d = 0 THEN [err |-> NotFinite(vb[3]), sizes |-> {}]
        ELSE IF vb[4].d = 0 THEN [err |-> NotFinite(vb[4]), sizes |-> {}]
        ELSE [err |-> [type |-> "none", msg |-> ""],
              sizes |-> {<<(vb[3].n * f[1] * d) \div (vb[3].d * f[2]),
                           (vb[4].n * f[1] * d) \div (vb[4].d * f[2])>>}]

\* calculate_pixel_size for the viewbox vb, the document unit u and a
\* resolution d > 0: the exception raised, or the sizes it may return.
calculate_pixel_size(vb, u, d) ==
    LET f == unit_to_inches(u)
    IN  IF vb[3].d = 0 THEN [err |-> NotFinite(vb[3]), sizes |-> {}]
        ELSE IF vb[4].d = 0 THEN [err |-> NotFinite(vb[4]), sizes |-> {}]
        ELSE [err |-> [type |-> "none", msg |-> ""],
              sizes |-> {<<w, h>> :
                            w \in Round(vb[3].n * f[1] * d, vb[3].d * f[2]),
                            h \in Round(vb[4].n * f[1] * d, vb[4].d * f[2])}]

\* pixel_width / vb_width as a fraction with a positive denominator
Quotient(pixel_width, vb_width) ==
    IF vb_width.n < 0
    THEN [n |-> 0 - pixel_width * vb_width.d, d |-> 0 - vb_width.n]
    ELSE [n |-> pixel_width * vb_width.d, d |-> vb_width.n]

\* calculate_scale: the exception raised, or the scales it may return.
calculate_scale(vb, u, d) ==
    LET size == calculate_pixel_size(vb, u, d)
    IN  IF size.err.type # "none" THEN [err |-> size.err, scales |-> {}]
        ELSE IF vb[3].n = 0
        THEN [err |-> size.err, scales |-> {[n |-> 1, d |-> 1]}]
        ELSE [err |-> size.err,
              scales |-> {Quotient(s[1], vb[3]) : s \in size.sizes}]

(***************************************************************************)
(* StyleParser.parse_style.  A string is a sequence of symbols: a symbol   *)
(* is a separator, a blank, or a piece of text without separators; the     *)
(* property fill-opacity is the text <<"fill", "-opacity">>.               *)
(***************************************************************************)
\* str.strip(), front and back.
RECURSIVE StripLeft(_)
StripLeft(str) ==
    IF str # <<>> /\ Head(str) = " " THEN StripLeft(Tail(str)) ELSE str

RECURSIVE StripRight(_)
StripRight(str) ==
    IF str # <<>> /\ str[Len(str)] = " "
    THEN StripRight(SubSeq(str, 1, Len(str) - 1))
    ELSE str

Strip(str) == StripRight(StripLeft(str))

Contains(str, sym) == \E k \in DOMAIN str : str[k] = sym

\* The position of the first sym in str; str contains sym.
Find(str, sym) == SetMin({k \in DOMAIN str : str[k] = sym})

\* str.split(sym)
RECURSIVE Split(_, _)
Split(str, sym) ==
    IF ~Contains(str, sym) THEN <<str>>
    ELSE <<SubSeq(str, 1, Find(str, sym) - 1)>>
         \o Split(SubSeq(str, Find(str, sym) + 1, Len(str)), sym)

\* styles[key] = value
Put(map, key, value) ==
    [x \in DOMAIN map \cup {key} |-> IF x = key THEN value ELSE map[x]]

EmptyMap == [x \in {} |-> <<>>]

\* The loop over the declarations of the style attribute.
RECURSIVE ParseDeclarations(_, _)
ParseDeclarations(decls, styles) ==
    IF decls = <<>> THEN styles
    ELSE LET declaration == Strip(Head(decls))
         IN  IF Contains(declaration, ":")
             THEN LET c == Find(declaration, ":")
                      prop == SubSeq(declaration, 1, c - 1)
                      value == SubSeq(declaration, c + 1, Len(declaration))
                  IN  ParseDeclarations(Tail(decls),
                                        Put(styles, Strip(prop), Strip(value)))
             ELSE ParseDeclarations(Tail(decls), styles)

\* svg_style_attrs, in the order of the list
svg_style_attrs ==
    << <<"fill">>, <<"fill", "-opacity">>, <<"stroke">>, <<"stroke", "-width">>,
       <<"stroke", "-opacity">>, <<"stroke", "-linejoin">>,
       <<"stroke", "-linecap">>, <<"stroke", "-miterlimit">>,
       <<"stroke", "-dasharray">>, <<"opacity">> >>

\* element.get(name)
GetAttr(element_attrs, name) ==
    IF name \in DOMAIN element_attrs THEN element_attrs[name] ELSE <<>>

\* The loop over the presentation attributes, with the attribute overriding
\* the inline declaration.
RECURSIVE ParseAttributes_Override(_, _, _)
ParseAttributes_Override(names, element_attrs, styles) ==
    IF names = <<>> THEN styles
    ELSE LET attr == Head(names)
             value == GetAttr(element_attrs, attr)
         IN  IF value # <<>>
             THEN ParseAttributes_Override(Tail(names), element_attrs,
                                           Put(styles, attr, value[1]))
             ELSE ParseAttributes_Override(Tail(names), element_attrs, styles)

\* The loop over the presentation attributes.
RECURSIVE ParseAttributes(_, _, _)
ParseAttributes(names, element_attrs, styles) ==
    IF names = <<>> THEN styles
    ELSE LET attr == Head(names)
             value == GetAttr(element_attrs, attr)
         IN  IF attr \notin DOMAIN styles /\ value # <<>>
             THEN ParseAttributes(Tail(names), element_attrs,
                                  Put(styles, attr, value[1]))
             ELSE ParseAttributes(Tail(names), element_attrs, styles)

\* parse_style on an element whose map is not yet cached.
parse_style(style, element_attrs) ==
    ParseAttributes(svg_style_attrs, element_attrs,
                    IF style # <<>>
                    THEN ParseDeclarations(Split(style, ";"), EmptyMap)
                    ELSE EmptyMap)

StyleSymbols == {"fill", "stroke", "-opacity", ":", ";", " ", "a"}

StyleStrings == UNION {[1..n -> StyleSymbols] : n \in 0..MaxStyleLen}

\* Style attributes of two declarations, with and without blanks.
Declarations ==
    {<<p, ":", v>> : p \in {"fill", "stroke"}, v \in {"a", "stroke"}}
    \cup {<<" ", p, " ", ":", " ", "a", " ">> : p \in {"fill", "stroke"}}
    \cup {<<"fill", "-opacity", ":", "a">>, <<"fill", ":">>}

DeclarationPairs ==
    {d1 \o <<";">> \o d2 : d1 \in Declarations, d2 \in Declarations}

AttrNames == {<<"fill">>, <<"stroke">>, <<"fill", "-opacity">>}

AttrValues == {<<>>, <<<<"b">>>>}

InitStyle ==
    /\ PathIdle
    /\ RenderIdle
    /\ ColorIdle
    /\ ParserIdle
    /\ style_attr \in StyleStrings \cup DeclarationPairs
    /\ attrs \in [AttrNames -> AttrValues]
    /\ style_dict = <<>>
    /\ fill_opacity = <<>>
    /\ stroke_opacity = <<>>
    /\ stroke_width = <<>>
    /\ serr = "none"
    /\ spc = "new"

\* A call of parse_style: the cached map when there is one.
CallParseStyle ==
    /\ spc \in {"new", "parsed"}
    /\ style_dict' = IF style_dict # <<>> THEN style_dict
                     ELSE <<parse_style(style_attr, attrs)>>
    /\ spc' = "parsed"
    /\ UNCHANGED <<style_attr, attrs, fill_opacity, stroke_opacity,
                   stroke_width, serr>>
    /\ UNCHANGED <<pathVars, renderVars, colorVars, parserVars>>

NextStyle == CallParseStyle

SpecStyle == InitStyle /\ [][NextStyle]_vars

(***************************************************************************)
(* Properties of parse_style.                                              *)
(***************************************************************************)
\* The declarations of the style string, read off its positions: <<a, b>> is
\* a maximal stretch without ";".
Stretches(str) ==
    {ab \in (1..(Len(str) + 1)) \X (0..Len(str)) :
        /\ ab[1] <= ab[2] + 1
        /\ ab[1] = 1 \/ str[ab[1] - 1] = ";"
        /\ ab[2] = Len(str) \/ str[ab[2] + 1] = ";"
        /\ \A k \in ab[1]..ab[2] : str[k] # ";"}

\* The text of positions a..b without the blanks at its ends.
Trimmed(str, a, b) ==
    LET solid == {k \in a..b : str[k] # " "}
    IN  IF solid = {} THEN <<>>
        ELSE SubSeq(str, SetMin(solid), CHOOSE m \in solid : \A o \in solid : o <= m)

FirstColon(str, ab) == SetMin({k \in ab[1]..ab[2] : str[k] = ":"})

\* The stretches that declare prop: the trimmed text before the first colon
\* is prop.
DeclarationsOf(str, prop) ==
    {ab \in Stretches(str) :
        /\ \E k \in ab[1]..ab[2] : str[k] = ":"
        /\ Trimmed(str, ab[1], FirstColon(str, ab) - 1) = prop}

\* The value of the last declaration of prop.
InlineValue(str, prop) ==
    LET ds == DeclarationsOf(str, prop)
        last == CHOOSE ab \in ds : \A o \in ds : o[1] <= ab[1]
    IN  Trimmed(str, FirstColon(str, last) + 1, last[2])

RecognizedNames == {svg_style_attrs[k] : k \in DOMAIN svg_style_attrs}

\* C9: in the parsed map, a recognized property declared in the inline style
\* has the value of its inline declaration, also when a presentation
\* attribute of that name is set; a property set only as a presentation
\* attribute has the attribute's value.
C9_InlineStyleWins ==
    spc = "parsed" =>
        \A prop \in RecognizedNames :
            IF DeclarationsOf(style_attr, prop) # {}
            THEN /\ prop \in DOMAIN style_dict[1]
                 /\ style_dict[1][prop] = InlineValue(style_attr, prop)
            ELSE GetAttr(attrs, prop) # <<>> =>
                 /\ prop \in DOMAIN style_dict[1]
                 /\ style_dict[1][prop] = GetAttr(attrs, prop)[1]

\* C9 witness: a property declared twice in the inline style and as an
\* attribute, with different values, was resolved.
C9_Witness ==
    /\ spc = "parsed"
    /\ \E prop \in RecognizedNames :
          /\ Cardinality(DeclarationsOf(style_attr, prop)) = 2
          /\ GetAttr(attrs, prop) # <<>>
          /\ GetAttr(attrs, prop)[1] # InlineValue(style_attr, prop)

(***************************************************************************)
(* StyleParser.get_opacity.  An opacity string is a sequence of            *)
(* characters; a float is an exact fraction [n, d] with d > 0.             *)
(***************************************************************************)
UpperLetters ==
    <<"A", "B", "C", "D", "E", "F", "G", "H", "I", "J", "K", "L", "M",
      "N", "O", "P", "Q", "R", "S", "T", "U", "V", "W", "X", "Y", "Z">>

LowerLetters ==
    <<"a", "b", "c", "d", "e", "f", "g", "h", "i", "j", "k", "l", "m",
      "n", "o", "p", "q", "r", "s", "t", "u", "v", "w", "x", "y", "z">>

\* str.lower()
LowerChar(ch) ==
    IF \E k \in DOMAIN UpperLetters : UpperLetters[k] = ch
    THEN LowerLetters[CHOOSE k \in DOMAIN UpperLetters : UpperLetters[k] = ch]
    ELSE ch

Lower(str) == [k \in DOMAIN str |-> LowerChar(str[k])]

Digits == {"0", "1", "2", "3", "4", "5", "6", "7", "8", "9"}

DigitValue(ch) ==
    CASE ch = "0" -> 0 [] ch = "1" -> 1 [] ch = "2" -> 2 [] ch = "3" -> 3
      [] ch = "4" -> 4 [] ch = "5" -> 5 [] ch = "6" -> 6 [] ch = "7" -> 7
      [] ch = "8" -> 8 [] ch = "9" -> 9

RECURSIVE Pow10(_)
Pow10(n) == IF n = 0 THEN 1 ELSE 10 * Pow10(n - 1)

\* The number written by a sequence of digits.
RECURSIVE DigitsValue(_)
DigitsValue(ds) ==
    IF ds = <<>> THEN 0
    ELSE 10 * DigitsValue(SubSeq(ds, 1, Len(ds) - 1)) + DigitValue(ds[Len(ds)])

\* The digits of a string that may hold single underscores between digits.
Grouped(str) ==
    /\ \A k \in DOMAIN str : str[k] \in Digits \cup {"_"}
    /\ \A k \in DOMAIN str :
          str[k] = "_" => /\ 1 < k /\ k < Len(str)
                          /\ str[k - 1] \in Digits /\ str[k + 1] \in Digits

\* The float written by the digits of whole and fraction and the exponent
\* written by esign and ebody; exp tells that there is an "e".
Decimal(sign, whole, fraction, exp, esign, ebody) ==
    LET digits == SelectSeq(whole \o fraction, LAMBDA ch : ch \in Digits)
        places == Len(SelectSeq(fraction, LAMBDA ch : ch \in Digits))
        e10 == esign * DigitsValue(SelectSeq(ebody, LAMBDA ch : ch \in Digits))
    IN  IF /\ Grouped(whole)
           /\ Grouped(fraction)
           /\ digits # <<>>
           /\ exp => (ebody # <<>> /\ Grouped(ebody))
        THEN [err |-> "none",
              n |-> sign * DigitsValue(digits) * (IF e10 > 0 THEN Pow10(e10) ELSE 1),
              d |-> Pow10(places) * (IF e10 < 0 THEN Pow10(0 - e10) ELSE 1)]
        ELSE [err |-> "ValueError", n |-> 0, d |-> 1]

\* The mantissa is cut at its first point, the exponent after its sign.
Scientific(sign, mantissa, exp, exponent) ==
    LET points == {k \in DOMAIN mantissa : mantissa[k] = "."}
        esigned == exponent # <<>> /\ exponent[1] \in {"-", "+"}
    IN  Decimal(sign,
                IF points = {} THEN mantissa
                ELSE SubSeq(mantissa, 1, SetMin(points) - 1),
                IF points = {} THEN <<>>
                ELSE SubSeq(mantissa, SetMin(points) + 1, Len(mantissa)),
                exp,
                IF exponent # <<>> /\ exponent[1] = "-" THEN 0 - 1 ELSE 1,
                IF esigned THEN Tail(exponent) ELSE exponent)

\* The number after the sign, in lower case: a name, or a mantissa and the
\* exponent after the first "e".
Unsigned(sign, body) ==
    LET es == {k \in DOMAIN body : body[k] = "e"}
    IN  IF body \in {<<"i", "n", "f">>,
                     <<"i", "n", "f", "i", "n", "i", "t", "y">>}
        THEN [err |-> "none", n |-> sign, d |-> 0]
        ELSE IF body = <<"n", "a", "n">>
        THEN [err |-> "none", n |-> 0, d |-> 0]
        ELSE Scientific(sign,
                        IF es = {} THEN body ELSE SubSeq(body, 1, SetMin(es) - 1),
                        es # {},
                        IF es = {} THEN <<>>
                        ELSE SubSeq(body, SetMin(es) + 1, Len(body)))

Signed(t) ==
    Unsigned(IF t # <<>> /\ t[1] = "-" THEN 0 - 1 ELSE 1,
             Lower(IF t # <<>> /\ t[1] \in {"-", "+"} THEN Tail(t) ELSE t))

\* float(str): blanks around the number are ignored; the number is an
\* optional sign, then "inf", "infinity" or "nan" in any letter case, or
\* digits with at most one point and at least one digit, then an optional
\* exponent: "e", an optional sign and digits. The result is a fraction
\* [n, d]: d > 0 for a finite number, [1, 0] and [-1, 0] for the
\* infinities, [0, 0] for nan.
Float(str) == Signed(Strip(str))

\* max(0.0, min(1.0, v)): min keeps 1.0 when v is nan
Clamp(v) ==
    IF v.d = 0 THEN (IF v.n < 0 THEN [v EXCEPT !.n = 0, !.d = 1]
                     ELSE [v EXCEPT !.n = 1, !.d = 1])
    ELSE IF v.n > v.d THEN [v EXCEPT !.n = 1, !.d = 1]
    ELSE IF v.n < 0 THEN [v EXCEPT !.n = 0, !.d = 1]
    ELSE v

get_opacity(opacity_str) ==
    IF opacity_str = <<>> THEN [err |-> "none", n |-> 1, d |-> 1]
    ELSE LET str == Strip(opacity_str)
         IN  IF str # <<>> /\ str[Len(str)] = "%"
             THEN LET v == Float(SubSeq(str, 1, Len(str) - 1))
                  IN  IF v.err # "none" THEN v ELSE [v EXCEPT !.d = @ * 100]
             ELSE LET v == Float(str)
                  IN  IF v.err # "none" THEN v ELSE Clamp(v)

DefaultOpacity == <<"1", ".", "0">>

\* styles.get(key, default)
StylesGet(styles, key, default) ==
    IF key \in DOMAIN styles THEN styles[key] ELSE default

get_fill_opacity(styles) ==
    get_opacity(StylesGet(styles, <<"fill", "-opacity">>, DefaultOpacity))

get_stroke_opacity(styles) ==
    get_opacity(StylesGet(styles, <<"stroke", "-opacity">>, DefaultOpacity))

OpacityChars == {"0", "1", "5", "-", ".", "%", " ", "x"}

OpacityStrings == UNION {[1..n -> OpacityChars] : n \in 0..MaxOpacityLen}

OpacityKeys == {<<"fill", "-opacity">>, <<"stroke", "-opacity">>}

\* The element's properties are parsed; one opacity property may be declared.
InitOpacity ==
    /\ PathIdle
    /\ RenderIdle
    /\ ColorIdle
    /\ ParserIdle
    /\ style_attr = <<>>
    /\ attrs = <<>>
    /\ \/ style_dict = <<EmptyMap>>
       \/ \E key \in OpacityKeys, raw \in OpacityStrings :
             style_dict = <<Put(EmptyMap, key, raw)>>
    /\ fill_opacity = <<>>
    /\ stroke_opacity = <<>>
    /\ stroke_width = <<>>
    /\ serr = "none"
    /\ spc = "parsed"

CallGetFillOpacity ==
    /\ spc = "parsed"
    /\ LET v == get_fill_opacity(style_dict[1])
       IN  /\ serr' = v.err
           /\ fill_opacity' = IF v.err # "none" THEN fill_opacity
                              ELSE <<[n |-> v.n, d |-> v.d]>>
    /\ UNCHANGED <<style_attr, attrs, style_dict, stroke_opacity, stroke_width,
                   spc>>
    /\ UNCHANGED <<pathVars, renderVars, colorVars, parserVars>>

CallGetStrokeOpacity ==
    /\ spc = "parsed"
    /\ LET v == get_stroke_opacity(style_dict[1])
       IN  /\ serr' = v.err
           /\ stroke_opacity' = IF v.err # "none" THEN stroke_opacity
                                ELSE <<[n |-> v.n, d |-> v.d]>>
    /\ UNCHANGED <<style_attr, attrs, style_dict, fill_opacity, stroke_width,
                   spc>>
    /\ UNCHANGED <<pathVars, renderVars, colorVars, parserVars>>

NextOpacity ==
    \/ CallGetFillOpacity
    \/ CallGetStrokeOpacity

SpecOpacity == InitOpacity /\ [][NextOpacity]_vars

(***************************************************************************)
(* Properties of get_opacity.                                              *)
(***************************************************************************)
InUnitInterval(v) == 0 <= v.n /\ v.n <= v.d

\* C10: every opacity that get_fill_opacity or get_stroke_opacity has
\* returned lies in [0, 1].
C10_OpacityInUnitInterval ==
    /\ fill_opacity # <<>> => InUnitInterval(fill_opacity[1])
    /\ stroke_opacity # <<>> => InUnitInterval(stroke_opacity[1])

(***************************************************************************)
(* StyleParser.get_color.  A colour string is a sequence of characters.    *)
(* A colour is <<r, g, b>>, each component a fraction [n, d].              *)
(***************************************************************************)
\* NAMED_COLORS
NAMED_COLORS ==
    (<<"b", "l", "a", "c", "k">> :> <<0, 0, 0>>)
    @@ (<<"w", "h", "i", "t", "e">> :> <<255, 255, 255>>)
    @@ (<<"r", "e", "d">> :> <<255, 0, 0>>)
    @@ (<<"g", "r", "e", "e", "n">> :> <<0, 128, 0>>)
    @@ (<<"b", "l", "u", "e">> :> <<0, 0, 255>>)
    @@ (<<"y", "e", "l", "l", "o", "w">> :> <<255, 255, 0>>)
    @@ (<<"c", "y", "a", "n">> :> <<0, 255, 255>>)
    @@ (<<"m", "a", "g", "e", "n", "t", "a">> :> <<255, 0, 255>>)
    @@ (<<"g", "r", "a", "y">> :> <<128, 128, 128>>)
    @@ (<<"g", "r", "e", "y">> :> <<128, 128, 128>>)
    @@ (<<"s", "i", "l", "v", "e", "r">> :> <<192, 192, 192>>)
    @@ (<<"m", "a", "r", "o", "o", "n">> :> <<128, 0, 0>>)
    @@ (<<"o", "l", "i", "v", "e">> :> <<128, 128, 0>>)
    @@ (<<"l", "i", "m", "e">> :> <<0, 255, 0>>)
    @@ (<<"a", "q", "u", "a">> :> <<0, 255, 255>>)
    @@ (<<"t", "e", "a", "l">> :> <<0, 128, 128>>)
    @@ (<<"n", "a", "v", "y">> :> <<0, 0, 128>>)
    @@ (<<"f", "u", "c", "h", "s", "i", "a">> :> <<255, 0, 255>>)
    @@ (<<"p", "u", "r", "p", "l", "e">> :> <<128, 0, 128>>)

HexDigits ==
    <<"0", "1", "2", "3", "4", "5", "6", "7", "8", "9",
      "a", "b", "c", "d", "e", "f">>

IsHexDigit(ch) == \E k \in DOMAIN HexDigits : HexDigits[k] = LowerChar(ch)

HexValue(ch) ==
    (CHOOSE k \in DOMAIN HexDigits : HexDigits[k] = LowerChar(ch)) - 1

\* int(s, 16) for a string s of two characters: blanks around the number
\* are ignored, and one sign may precede the digits.
Int16(s) ==
    LET t == Strip(s)
    IN  IF Len(t) = 2 /\ IsHexDigit(t[1]) /\ IsHexDigit(t[2])
        THEN [err |-> "none", v |-> 16 * HexValue(t[1]) + HexValue(t[2])]
        ELSE IF Len(t) = 2 /\ t[1] = "+" /\ IsHexDigit(t[2])
        THEN [err |-> "none", v |-> HexValue(t[2])]
        ELSE IF Len(t) = 2 /\ t[1] = "-" /\ IsHexDigit(t[2])
        THEN [err |-> "none", v |-> 0 - HexValue(t[2])]
        ELSE IF Len(t) = 1 /\ IsHexDigit(t[1])
        THEN [err |-> "none", v |-> HexValue(t[1])]
        ELSE [err |-> "ValueError", v |-> 0]

\* c * 2 for every character c of a string
RECURSIVE Doubled(_)
Doubled(str) ==
    IF str = <<>> THEN <<>>
    ELSE <<Head(str), Head(str)>> \o Doubled(Tail(str))

\* (r / 255.0, g / 255.0, b / 255.0)
Rgb(r, g, b) ==
    <<[n |-> r, d |-> 255], [n |-> g, d |-> 255], [n |-> b, d |-> 255]>>

Returned(value) == [err |-> "none", value |-> value]

Raised(err) == [err |-> err, value |-> <<>>]

\* The regular expression of the rgb() form, applied by re.match at the
\* start of the string. After(str, p, set) is the first position from p on
\* whose character is not in set: what a starred class consumes.
After(str, p, set) ==
    SetMin({q \in p..(Len(str) + 1) :
               q = Len(str) + 1 \/ str[q] \notin set})

At(str, p, ch) == p <= Len(str) /\ str[p] = ch

\* rgb\s*\(\s*(\d+)\s*,\s*(\d+)\s*,\s*(\d+)\s*\)
\* The result is <<>> for no match, or <<groups>>, the three digit strings.
RgbMatch(str) ==
    LET blank == {" "}
        p1 == After(str, 4, blank)              \* at "("
        r1 == After(str, p1 + 1, blank)         \* first number
        r2 == After(str, r1, Digits)
        c1 == After(str, r2, blank)             \* at ","
        g1 == After(str, c1 + 1, blank)         \* second number
        g2 == After(str, g1, Digits)
        c2 == After(str, g2, blank)             \* at ","
        b1 == After(str, c2 + 1, blank)         \* third number
        b2 == After(str, b1, Digits)
        p2 == After(str, b2, blank)             \* at ")"
    IN  IF /\ Len(str) >= 3
           /\ SubSeq(str, 1, 3) = <<"r", "g", "b">>
           /\ At(str, p1, "(")
           /\ r2 > r1
           /\ At(str, c1, ",")
           /\ g2 > g1
           /\ At(str, c2, ",")
           /\ b2 > b1
           /\ At(str, p2, ")")
        THEN << <<SubSeq(str, r1, r2 - 1), SubSeq(str, g1, g2 - 1),
                  SubSeq(str, b1, b2 - 1)>> >>
        ELSE <<>>

\* get_color: the value returned (<<>> for None, <<triple>> for a colour)
\* or the exception raised.
get_color(color_str_arg) ==
    IF color_str_arg = <<>> \/ Lower(color_str_arg) = <<"n", "o", "n", "e">>
    THEN Returned(<<>>)
    ELSE LET str == Lower(Strip(color_str_arg))
             short == SubSeq(str, 2, Len(str))
             hex_color == IF Len(short) = 3 THEN Doubled(short) ELSE short
             m == RgbMatch(str)
         IN  IF str # <<>> /\ str[1] = "#" /\ Len(hex_color) = 6
             THEN LET r == Int16(SubSeq(hex_color, 1, 2))
                      g == Int16(SubSeq(hex_color, 3, 4))
                      b == Int16(SubSeq(hex_color, 5, 6))
                  IN  IF r.err = "none" /\ g.err = "none" /\ b.err = "none"
                      THEN Returned(<<Rgb(r.v, g.v, b.v)>>)
                      ELSE Raised("ValueError")
             ELSE IF str \in DOMAIN NAMED_COLORS
             THEN LET c == NAMED_COLORS[str]
                  IN  Returned(<<Rgb(c[1], c[2], c[3])>>)
             ELSE IF m # <<>>
             THEN Returned(<<Rgb(DigitsValue(m[1][1]), DigitsValue(m[1][2]),
                                 DigitsValue(m[1][3]))>>)
             ELSE Raised("ValueError")

(***************************************************************************)
(* Calls of get_color as a state machine.                                  *)
(***************************************************************************)
ColorChars == {"#", "f", "F", "0", "g", "+", " "}

ShortColors == UNION {[1..n -> ColorChars] : n \in 0..MaxColorLen}

\* The pairs of characters of a six-digit hex colour.
HexPairs ==
    {<<"f", "f">>, <<"0", "0">>, <<"8", "0">>, <<"F", "f">>, <<"+", "f">>,
     <<"-", "1">>, <<" ", "f">>, <<"f", " ">>, <<"g", "0">>}

LongHexColors ==
    {<<"#">> \o p \o q \o r : p \in HexPairs, q \in HexPairs, r \in HexPairs}

\* str.upper() for a lower-case name
Upper1(ch) ==
    IF \E k \in DOMAIN LowerLetters : LowerLetters[k] = ch
    THEN UpperLetters[CHOOSE k \in DOMAIN LowerLetters : LowerLetters[k] = ch]
    ELSE ch

UpperCase(str) == [k \in DOMAIN str |-> Upper1(str[k])]

\* Every name of the table and "none": as written, in capitals, capitalised,
\* between blanks, cut short and with a character too many.
Words == DOMAIN NAMED_COLORS \cup {<<"n", "o", "n", "e">>}

NamedColors ==
    UNION {{w, UpperCase(w), <<Upper1(w[1])>> \o Tail(w),
            <<" ">> \o w, w \o <<" ">>, <<" ">> \o w \o <<" ">>,
            SubSeq(w, 1, Len(w) - 1), w \o <<"x">>} : w \in Words}

\* rgb() colours: with and without blanks, with components in and out of
\* 0..255, with a missing component and with text after the closing bracket.
Components == {<<>>, <<"0">>, <<"2", "5", "5">>, <<"3", "0", "0">>}

Blanks == {<<>>, <<" ">>}

RgbColors ==
    {h \o b1 \o <<"(">> \o b2 \o r \o <<",">> \o g \o <<",">> \o b2 \o b
       \o b1 \o t :
        h \in {<<"r", "g", "b">>, <<"R", "G", "B">>},
        b1 \in Blanks, b2 \in Blanks,
        r \in Components, g \in Components, b \in Components,
        t \in {<<")">>, <<")", "x">>, <<>>}}

ColorStrings == ShortColors \cup LongHexColors \cup NamedColors \cup RgbColors

InitColor ==
    /\ PathIdle
    /\ RenderIdle
    /\ StyleIdle
    /\ ParserIdle
    /\ color_str \in ColorStrings
    /\ color = <<>>
    /\ cerr = "none"
    /\ cpc = "new"

CallGetColor ==
    /\ cpc = "new"
    /\ LET r == get_color(color_str)
       IN  /\ cerr' = r.err
           /\ color' = IF r.err = "none" THEN <<r.value>> ELSE <<>>
    /\ cpc' = "done"
    /\ UNCHANGED color_str
    /\ UNCHANGED <<pathVars, renderVars, styleVars, parserVars>>

NextColor == CallGetColor

SpecColor == InitColor /\ [][NextColor]_vars

(***************************************************************************)
(* Properties of get_color.                                                *)
(***************************************************************************)
UnsupportedColorFormat == "ValueError"

IsNoneString(str) == str = <<>> \/ Lower(str) = <<"n", "o", "n", "e">>

\* #RGB or #RRGGBB
IsHexForm(str) ==
    /\ Len(str) \in {4, 7}
    /\ str[1] = "#"
    /\ \A k \in 2..Len(str) : IsHexDigit(str[k])

IsNameForm(str) == \E w \in DOMAIN NAMED_COLORS : Lower(str) = w

IsNumber(str) == str # <<>> /\ \A k \in DOMAIN str : str[k] \in Digits

\* rgb(r,g,b): the positions of the two commas split the text between the
\* brackets into three numbers.
IsRgbForm(str) ==
    /\ Len(str) >= 10
    /\ Lower(SubSeq(str, 1, 4)) = <<"r", "g", "b", "(">>
    /\ str[Len(str)] = ")"
    /\ \E c1, c2 \in 5..(Len(str) - 1) :
          /\ c1 < c2
          /\ str[c1] = "," /\ str[c2] = ","
          /\ IsNumber(SubSeq(str, 5, c1 - 1))
          /\ IsNumber(SubSeq(str, c1 + 1, c2 - 1))
          /\ IsNumber(SubSeq(str, c2 + 1, Len(str) - 1))

IsColorForm(str) == IsHexForm(str) \/ IsNameForm(str) \/ IsRgbForm(str)

\* The string without its blanks.
Squeeze(str) == SelectSeq(str, LAMBDA ch : ch # " ")

\* C11: get_color returns None exactly for the empty string and for "none"
\* in any letter case; it returns a triple for #RGB, #RRGGBB, a name of the
\* table in any letter case and rgb(r,g,b); it fails with the error of an
\* unsupported colour for every other string. A string that is one of the
\* forms once its blanks are removed counts as neither.
C11_ColorForms ==
    cpc = "done" =>
        /\ (cerr = "none" /\ color = <<<<>>>>) <=> IsNoneString(color_str)
        /\ IsColorForm(color_str) => (cerr = "none" /\ color # <<<<>>>>)
        /\ (~IsNoneString(color_str) /\ ~IsColorForm(Squeeze(color_str)))
              => cerr = UnsupportedColorFormat

(***************************************************************************)
(* SVGParser: get_viewbox, _parse_dimension and get_document_unit.  The    *)
(* root element is a record of its attributes viewBox, width and height;   *)
(* an attribute is <<>> when it is not set and <<string>> when it is set.  *)
(* An exception of SVGParser is [type, msg]: its class and the start of    *)
(* its message.                                                            *)
(***************************************************************************)
NoError == [type |-> "none", msg |-> ""]

ValueError(msg) == [type |-> "ValueError", msg |-> msg]

EndsWith(str, suffix) ==
    /\ Len(str) >= Len(suffix)
    /\ SubSeq(str, Len(str) - Len(suffix) + 1, Len(str)) = suffix

\* The units of _parse_dimension, in the order of the list.
DimensionUnits ==
    << <<"p", "x">>, <<"p", "t">>, <<"m", "m">>, <<"c", "m">>, <<"i", "n">>,
       <<"p", "c">>, <<"e", "m">>, <<"e", "x">>, <<"%">> >>

\* The loop that removes the first unit of the list that ends the value.
RECURSIVE RemoveUnit(_, _)
RemoveUnit(value, units) ==
    IF units = <<>> THEN value
    ELSE IF EndsWith(value, Head(units))
    THEN SubSeq(value, 1, Len(value) - Len(Head(units)))
    ELSE RemoveUnit(value, Tail(units))

parse_dimension(value) ==
    LET v == Float(RemoveUnit(value, DimensionUnits))
    IN  IF v.err = "none"
        THEN [err |-> NoError, value |-> [n |-> v.n, d |-> v.d]]
        ELSE [err |-> ValueError("Cannot parse dimension"), value |-> <<>>]

\* str.split(): the maximal runs of characters that are not blanks.
RECURSIVE SplitBlanks(_)
FirstWord(s) ==
    LET blanks == {k \in DOMAIN s : s[k] = " "}
    IN  IF blanks = {} THEN s ELSE SubSeq(s, 1, SetMin(blanks) - 1)

SplitStripped(s) ==
    IF s = <<>> THEN <<>>
    ELSE <<FirstWord(s)>> \o SplitBlanks(SubSeq(s, Len(FirstWord(s)) + 1, Len(s)))

SplitBlanks(str) == SplitStripped(StripLeft(str))

\* map(float, parts): the floats, or the error of the first part that is
\* not a number.
RECURSIVE MapFloat(_)
MapFloat(parts) ==
    IF parts = <<>> THEN [err |-> "none", values |-> <<>>]
    ELSE LET v == Float(Head(parts))
             rest == MapFloat(Tail(parts))
         IN  IF v.err # "none" THEN [err |-> v.err, values |-> <<>>]
             ELSE IF rest.err # "none" THEN rest
             ELSE [err |-> "none",
                   values |-> <<[n |-> v.n, d |-> v.d]>> \o rest.values]

Zero == [n |-> 0, d |-> 1]

\* get_viewbox on a loaded document r.
get_viewbox(r) ==
    IF r.viewBox = <<>> \/ r.viewBox = <<<<>>>>
    THEN IF /\ r.width # <<>> /\ r.width # <<<<>>>>
            /\ r.height # <<>> /\ r.height # <<<<>>>>
         THEN LET width == parse_dimension(r.width[1])
                  height == parse_dimension(r.height[1])
              IN  IF width.err # NoError THEN width
                  ELSE IF height.err # NoError THEN height
                  ELSE [err |-> NoError,
                        value |-> <<Zero, Zero, width.value, height.value>>]
         ELSE [err |-> ValueError("No viewBox attribute found"), value |-> <<>>]
    ELSE LET parts == SplitBlanks(r.viewBox[1])
             floats == MapFloat(parts)
         IN  IF Len(parts) # 4 \/ floats.err # "none"
             THEN [err |-> ValueError("Invalid viewBox values"), value |-> <<>>]
             ELSE [err |-> NoError, value |-> floats.values]

\* The units of get_document_unit, in the order of the list.
DocumentUnits ==
    << [name |-> "mm", text |-> <<"m", "m">>],
       [name |-> "cm", text |-> <<"c", "m">>],
       [name |-> "in", text |-> <<"i", "n">>],
       [name |-> "pt", text |-> <<"p", "t">>],
       [name |-> "pc", text |-> <<"p", "c">>] >>

RECURSIVE FindUnit(_, _)
FindUnit(width_str, units) ==
    IF units = <<>> THEN "px"
    ELSE IF EndsWith(width_str, Head(units).text) THEN Head(units).name
    ELSE FindUnit(width_str, Tail(units))

\* get_document_unit on a loaded document r.
get_document_unit(r) ==
    FindUnit(IF r.width = <<>> THEN <<>> ELSE r.width[1], DocumentUnits)

(***************************************************************************)
(* The calls of SVGParser as a state machine.                              *)
(***************************************************************************)
\* The words of a viewBox attribute.
ViewBoxWords ==
    {<<"0">>, <<"7">>, <<"1", "0", "0">>, <<"2", "1", "0">>,
     <<"2", "9", "7">>, <<"-", "5">>, <<"1", ".", "5">>, <<"1", "e", "2">>,
     <<"i", "n", "f">>, <<"n", "a", "n">>, <<"x">>}

\* "0 0 w h"
ViewBox(w, h) == <<"0", " ", "0", " ">> \o w \o <<" ">> \o h

\* viewBox attributes: four words, each word in turn taken from
\* ViewBoxWords; three words, five words, no word; commas; more than one
\* blank.
ViewBoxStrings ==
    {ViewBox(w, <<"7">>) : w \in ViewBoxWords}
    \cup {ViewBox(<<"7">>, h) : h \in ViewBoxWords}
    \cup {x \o <<" ", "0", " ", "7", " ", "7">> : x \in ViewBoxWords}
    \cup {<<"0", " ", "0", " ">> \o w : w \in {<<"7">>, <<"x">>}}
    \cup {ViewBox(<<"7">>, <<"7">>) \o <<" ">> \o w : w \in {<<"7">>, <<"x">>}}
    \cup {<<>>, <<" ">>, <<"0", ",", "0", ",", "7", ",", "7">>,
          <<" ", "0", " ", " ", "0", " ", "7", " ", " ", "7", " ">>}

\* The viewBox attributes of documents that declare a unit.
SizedViewBoxes ==
    {ViewBox(<<"2", "1", "0">>, <<"2", "9", "7">>),
     ViewBox(<<"1", "0", "0">>, <<"1", "0", "0">>),
     ViewBox(<<"7">>, <<"1", ".", "5">>),
     ViewBox(<<"0">>, <<"7">>),
     ViewBox(<<"-", "5">>, <<"7">>)}

\* width attributes: a number, with each unit of the two lists, with text
\* that is no unit, with a blank before the unit, with two units, without
\* a number.
Widths ==
    {<<"2", "1", "0">> \o u :
        u \in {DimensionUnits[k] : k \in DOMAIN DimensionUnits}
              \cup {<<>>, <<"x">>, <<" ", "m", "m">>, <<"p", "x", "p", "x">>}}
    \cup {<<>>, <<"0">>, <<"7">>, <<"1", "0", "0">>, <<"-", "5">>,
          <<"1", ".", "5", "c", "m">>, <<"m", "m">>, <<"i", "n", "f">>}

UnitWidths ==
    {<<"1", "0", "0">>, <<"2", "1", "0", "m", "m">>, <<"7", "c", "m">>,
     <<"7", "i", "n">>, <<"7", "p", "t">>, <<"7", "p", "c">>,
     <<"7", "p", "x">>}

Heights ==
    {<<>>, <<"7">>, <<"1", "0", "0">>, <<"2", "9", "7", "m", "m">>,
     <<"-", "5">>, <<"n", "a", "n">>, <<"x">>}

DpiValues == {48, 96, 300}

Some(S) == {<<x>> : x \in S}

Attributes(v, w, h) == [viewBox |-> v, width |-> w, height |-> h]

\* The documents: a viewBox alone; a viewBox and a width with a unit; no
\* viewBox, or an empty one, and a width, a height, both or none.
RootElements ==
    {Attributes(<<v>>, <<>>, <<>>) : v \in ViewBoxStrings}
    \cup {Attributes(<<v>>, <<w>>, <<>>) : v \in SizedViewBoxes, w \in UnitWidths}
    \cup {Attributes(<<>>, w, <<<<"7">>>>) : w \in {<<>>} \cup Some(Widths)}
    \cup {Attributes(<<>>, <<<<"1", "0", "0">>>>, h) :
             h \in {<<>>} \cup Some(Heights)}
    \cup {Attributes(<<<<>>>>, w, h) :
             w \in {<<>>, <<<<"2", "1", "0", "m", "m">>>>},
             h \in {<<>>, <<<<"2", "9", "7", "m", "m">>>>}}
    \cup {Attributes(<<>>, <<>>, <<>>)}

InitParser ==
    /\ PathIdle
    /\ RenderIdle
    /\ StyleIdle
    /\ ColorIdle
    /\ svg \in RootElements
    /\ root = <<>>
    /\ vb_out = <<>>
    /\ unit_out = <<>>
    /\ size_out = <<>>
    /\ scale_out = <<>>
    /\ verr = NoError
    /\ vcall = "none"

load_svg ==
    /\ root = <<>>
    /\ root' = <<svg>>
    /\ verr' = NoError
    /\ UNCHANGED <<svg, vb_out, unit_out, size_out, scale_out>>
    /\ vcall' = "load_svg"
    /\ UNCHANGED <<pathVars, renderVars, styleVars, colorVars>>

NotLoaded == ValueError("SVG not loaded")

CallGetViewbox ==
    /\ IF root = <<>>
       THEN verr' = NotLoaded /\ UNCHANGED vb_out
       ELSE LET r == get_viewbox(root[1])
            IN  /\ verr' = r.err
                /\ vb_out' = IF r.err = NoError THEN <<r.value>> ELSE vb_out
    /\ UNCHANGED <<svg, root, unit_out, size_out, scale_out>>
    /\ vcall' = "get_viewbox"
    /\ UNCHANGED <<pathVars, renderVars, styleVars, colorVars>>

CallGetDocumentUnit ==
    /\ IF root = <<>>
       THEN verr' = NotLoaded /\ UNCHANGED unit_out
       ELSE /\ verr' = NoError
            /\ unit_out' = <<get_document_unit(root[1])>>
    /\ UNCHANGED <<svg, root, vb_out, size_out, scale_out>>
    /\ vcall' = "get_document_unit"
    /\ UNCHANGED <<pathVars, renderVars, styleVars, colorVars>>

\* calculate_pixel_size(dpi): get_viewbox, get_document_unit, the sizes.
CallCalculatePixelSize ==
    /\ \E d \in DpiValues :
        IF root = <<>>
        THEN verr' = NotLoaded /\ UNCHANGED size_out
        ELSE LET r == get_viewbox(root[1])
                 u == get_document_unit(root[1])
             IN  IF r.err # NoError
                 THEN verr' = r.err /\ UNCHANGED size_out
                 ELSE LET size == calculate_pixel_size(r.value, u, d)
                      IN  IF size.err # NoError
                          THEN verr' = size.err /\ UNCHANGED size_out
                          ELSE /\ verr' = NoError
                               /\ \E s \in size.sizes :
                                     size_out' = <<[dpi |-> d, width |-> s[1],
                                                    height |-> s[2]]>>
    /\ UNCHANGED <<svg, root, vb_out, unit_out, scale_out>>
    /\ vcall' = "calculate_pixel_size"
    /\ UNCHANGED <<pathVars, renderVars, styleVars, colorVars>>

\* calculate_scale(dpi): get_viewbox, calculate_pixel_size, the quotient.
CallCalculateScale ==
    /\ \E d \in DpiValues :
        IF root = <<>>
        THEN verr' = NotLoaded /\ UNCHANGED scale_out
        ELSE LET r == get_viewbox(root[1])
                 u == get_document_unit(root[1])
             IN  IF r.err # NoError
                 THEN verr' = r.err /\ UNCHANGED scale_out
                 ELSE LET scale == calculate_scale(r.value, u, d)
                      IN  IF scale.err # NoError
                          THEN verr' = scale.err /\ UNCHANGED scale_out
                          ELSE /\ verr' = NoError
                               /\ \E s \in scale.scales :
                                     scale_out' = <<[dpi |-> d, scale |-> s]>>
    /\ UNCHANGED <<svg, root, vb_out, unit_out, size_out>>
    /\ vcall' = "calculate_scale"
    /\ UNCHANGED <<pathVars, renderVars, styleVars, colorVars>>

NextParser ==
    \/ load_svg
    \/ CallGetViewbox
    \/ CallGetDocumentUnit
    \/ CallCalculatePixelSize
    \/ CallCalculateScale

SpecParser == InitParser /\ [][NextParser]_vars

(***************************************************************************)
(* Properties of SVGParser.                                                *)
(***************************************************************************)
\* The inches of one document unit.
InchesPerUnit(u) ==
    CASE u = "px" -> [n |-> 1, d |-> 96]
      [] u = "pt" -> [n |-> 1, d |-> 72]
      [] u = "pc" -> [n |-> 1, d |-> 6]
      [] u = "mm" -> [n |-> 10, d |-> 254]
      [] u = "cm" -> [n |-> 100, d |-> 254]
      [] u = "in" -> [n |-> 1, d |-> 1]

Abs(x) == IF x < 0 THEN 0 - x ELSE x

\* p is an integer nearest to num / den, for den > 0.
Nearest(p, num, den) == 2 * Abs(p * den - num) <= den

\* The integers nearest to the pixels of v document units at resolution dots.
Pixels(v, u, dots) ==
    LET num == v.n * InchesPerUnit(u).n * dots
        den == v.d * InchesPerUnit(u).d
    IN  {p \in ((num \div den) - 1)..((num \div den) + 2) : Nearest(p, num, den)}

Number(v) == [n |-> v, d |-> 1]

SameNumber(a, b) == a.n * b.d = b.n * a.d

\* C12: in DPI mode the pixel width and height are the roundings of the
\* viewbox width and height times the inches of the document unit times
\* the resolution, and the scale is the pixel width divided by the viewbox
\* width, or 1 when the viewbox width is 0; 210 mm at 300 dots per inch are
\* 2480 pixels, and 100 x 100 px at 96 dots per inch are 100 x 100 pixels at
\* scale 1.
C12_PixelSizeAndScale ==
    (root # <<>> /\ get_viewbox(root[1]).err = NoError) =>
        LET vb == get_viewbox(root[1]).value
            u == get_document_unit(root[1])
        IN  /\ size_out # <<>> =>
                 /\ size_out[1].width \in Pixels(vb[3], u, size_out[1].dpi)
                 /\ size_out[1].height \in Pixels(vb[4], u, size_out[1].dpi)
                 /\ (u = "mm" /\ SameNumber(vb[3], Number(210))
                     /\ size_out[1].dpi = 300) => size_out[1].width = 2480
                 /\ (u = "px" /\ SameNumber(vb[3], Number(100))
                     /\ SameNumber(vb[4], Number(100)) /\ size_out[1].dpi = 96)
                       => size_out[1].width = 100 /\ size_out[1].height = 100
            /\ scale_out # <<>> =>
                 /\ IF vb[3].n = 0
                    THEN SameNumber(scale_out[1].scale, Number(1))
                    ELSE \E p \in Pixels(vb[3], u, scale_out[1].dpi) :
                            scale_out[1].scale.n * vb[3].n
                               = p * vb[3].d * scale_out[1].scale.d
                 /\ (u = "px" /\ SameNumber(vb[3], Number(100))
                     /\ scale_out[1].dpi = 96)
                       => SameNumber(scale_out[1].scale, Number(1))

\* C12 witness: 210 mm x 297 mm at 300 dots per inch gave 2480 x 3508
\* pixels and a scale of 2480 / 210.
C12_Witness ==
    /\ size_out = <<[dpi |-> 300, width |-> 2480, height |-> 3508]>>
    /\ scale_out # <<>>
    /\ scale_out[1].dpi = 300
    /\ SameNumber(scale_out[1].scale, [n |-> 2480, d |-> 210])
    /\ unit_out = <<"mm">>

MalformedDimension ==
    {ValueError("Invalid viewBox values"), ValueError("Cannot parse dimension")}

MissingViewport == ValueError("No viewBox attribute found")

\* The words of a string: the maximal stretches <<a, b>> without a blank.
WordsOf(str) ==
    {ab \in (1..Len(str)) \X (1..Len(str)) :
        /\ ab[1] <= ab[2]
        /\ \A k \in ab[1]..ab[2] : str[k] # " "
        /\ ab[1] = 1 \/ str[ab[1] - 1] = " "
        /\ ab[2] = Len(str) \/ str[ab[2] + 1] = " "}

IsNumeric(str) == Float(str).err = "none"

FourNumbers(str) ==
    /\ Cardinality(WordsOf(str)) = 4
    /\ \A ab \in WordsOf(str) : IsNumeric(SubSeq(str, ab[1], ab[2]))

\* The k-th word of a string, as a number.
NumberAt(str, k) ==
    LET ab == CHOOSE w \in WordsOf(str) :
                 Cardinality({o \in WordsOf(str) : o[1] < w[1]}) = k - 1
        v == Float(SubSeq(str, ab[1], ab[2]))
    IN  [n |-> v.n, d |-> v.d]

UnitSuffixes == {DimensionUnits[k] : k \in DOMAIN DimensionUnits}

\* A width or height without its unit suffix, when it has one.
WithoutUnit(str) ==
    IF \E u \in UnitSuffixes : EndsWith(str, u)
    THEN LET u == CHOOSE x \in UnitSuffixes : EndsWith(str, x)
         IN  SubSeq(str, 1, Len(str) - Len(u))
    ELSE str

SameViewbox(a, b) ==
    \A k \in 1..4 : a[k].d = b[k].d /\ a[k].n * b[k].d = b[k].n * a[k].d

\* C14: get_viewbox on a document with a viewBox attribute returns its four
\* numbers when it consists of four numbers between blanks and fails with
\* the error of a malformed dimension otherwise; without the attribute it
\* returns (0, 0, width, height), unit suffix removed, when width and height
\* are both declared, and fails with the error of a missing viewport when
\* one of them is missing.
C14_ResolveViewbox ==
    (vcall = "get_viewbox" /\ root # <<>>) =>
        LET r == root[1]
            ok == verr = NoError /\ vb_out # <<>>
        IN  IF r.viewBox # <<>>
            THEN IF FourNumbers(r.viewBox[1])
                 THEN /\ ok
                      /\ SameViewbox(vb_out[1],
                                     [k \in 1..4 |-> NumberAt(r.viewBox[1], k)])
                 ELSE verr \in MalformedDimension
            ELSE IF r.width # <<>> /\ r.height # <<>>
            THEN LET w == Float(WithoutUnit(r.width[1]))
                     h == Float(WithoutUnit(r.height[1]))
                 IN  IF w.err = "none" /\ h.err = "none"
                     THEN /\ ok
                          /\ SameViewbox(vb_out[1],
                                <<Number(0), Number(0), [n |-> w.n, d |-> w.d],
                                  [n |-> h.n, d |-> h.d]>>)
                     ELSE verr \in MalformedDimension
            ELSE verr = MissingViewport

\* C15: every viewbox that get_viewbox has returned has four finite
\* components, and its width and height are not negative.
C15_ViewboxNotNegative ==
    vb_out # <<>> =>
        /\ \A k \in 1..4 : vb_out[1][k].d > 0
        /\ vb_out[1][3].n >= 0
        /\ vb_out[1][4].n >= 0

(***************************************************************************)
(* LayerExtractor.  The document is the sequence of its layers, the g      *)
(* elements with groupmode "layer", in document order.  A layer is         *)
(* [label, id, elems]: label and id are <<>> when the attribute is absent  *)
(* and <<text>> otherwise, elems are the elements below the layer in       *)
(* document order.  A layer holds no other layer.  An element is paired    *)
(* with its place in the document, <<layer, position>>.                    *)
(***************************************************************************)
\* A value under a name: Op of the value v.
Bind(v, Op(_)) == Op(v)

Quote == "\""

\* The position of the first layer with Test, 0 for None.
FirstLayer(layers, Test(_)) ==
    IF \E k \in DOMAIN layers : Test(layers[k])
    THEN SetMin({k \in DOMAIN layers : Test(layers[k])})
    ELSE 0

get_layer_by_name(layers, layer_name) ==
    FirstLayer(layers, LAMBDA layer : layer.label = <<layer_name>>)

\* get_layer_by_id pastes layer_id between double quotes into the XPath
\* expression. The identifiers of the model are made of letters, digits,
\* blanks, underscores and double quotes: with a double quote in it the
\* expression is a string followed by more text and does not compile.
get_layer_by_id(layers, layer_id) ==
    IF Contains(layer_id, Quote)
    THEN [err |-> "XPathEvalError", layer |-> 0]
    ELSE [err |-> "none",
          layer |-> FirstLayer(layers, LAMBDA layer : layer.id = <<layer_id>>)]

RECURSIVE get_layer_names(_)
get_layer_names(layers) ==
    IF layers = <<>> THEN <<>>
    ELSE LET layer == Head(layers)
             names == IF layer.label # <<>> /\ layer.label[1] # <<>>
                      THEN layer.label
                      ELSE IF layer.id # <<>> /\ layer.id[1] # <<>>
                      THEN layer.id
                      ELSE <<>>
         IN  names \o get_layer_names(Tail(layers))

\* sep.join(strs)
RECURSIVE Join(_, _)
Join(strs, sep) ==
    IF strs = <<>> THEN <<>>
    ELSE IF Len(strs) = 1 THEN strs[1]
    ELSE strs[1] \o sep \o Join(Tail(strs), sep)

\* The message of the ValueError of get_layer: the identifier between the
\* quotes and the text after "Available layers: ".
NotFound(layers, identifier) ==
    [identifier |-> identifier,
     available |-> IF get_layer_names(layers) # <<>>
                   THEN Join(get_layer_names(layers), <<",", " ">>)
                   ELSE <<"n", "o", "n", "e">>]

get_layer(layers, identifier) ==
    Bind(get_layer_by_name(layers, identifier), LAMBDA by_name :
        IF by_name # 0 THEN [err |-> "none", msg |-> <<>>, layer |-> by_name]
        ELSE Bind(get_layer_by_id(layers, identifier), LAMBDA by_id :
            IF by_id.err # "none"
            THEN [err |-> by_id.err, msg |-> <<>>, layer |-> 0]
            ELSE IF by_id.layer # 0
            THEN [err |-> "none", msg |-> <<>>, layer |-> by_id.layer]
            ELSE [err |-> "ValueError",
                  msg |-> <<NotFound(layers, identifier)>>, layer |-> 0]))

\* One query of extract_elements: the elements of one type, in document
\* order.
ElementsOfType(layers, k, type) ==
    LET placed == [p \in DOMAIN layers[k].elems |->
                      [e |-> layers[k].elems[p], id |-> <<k, p>>]]
    IN  SelectSeq(placed, LAMBDA x : x.e.tag = type)

\* extract_elements with the default types.
extract_elements(layers, k) ==
    ElementsOfType(layers, k, "path") \o ElementsOfType(layers, k, "rect")

\* SVGRenderer.list_layers
list_layers(layers) == get_layer_names(layers)

(***************************************************************************)
(* Renderer.  An element is [tag, geom, d, style, attrs]: geom gives the   *)
(* x, y, width and height attributes (<<>> when absent), d is the path     *)
(* data as a sequence of lexemes, style is the style attribute and attrs   *)
(* are the presentation attributes.                                        *)
(***************************************************************************)
\* Renderer(*args): __init__ takes width and height.
RendererInit(args) ==
    IF Len(args) # 2 THEN [err |-> "TypeError", obj |-> <<>>]
    ELSE [err |-> "none", obj |-> <<[width |-> args[1], height |-> args[2]]>>]

\* int(v) with round() around it.
ToInt_Rounds(v) ==
    IF v.n >= 0 THEN (2 * v.n + v.d) \div (2 * v.d)
    ELSE 0 - ((2 * (0 - v.n) + v.d) \div (2 * v.d))

\* int(v) of a finite float: the fraction is cut off, towards zero.
ToInt(v) ==
    IF v.n >= 0 THEN v.n \div v.d ELSE 0 - ((0 - v.n) \div v.d)

\* SVGRenderer._create_renderer: the outcomes it may have.
create_renderer(vb, u, resolution) ==
    IF resolution # <<>>
    THEN LET size == calculate_pixel_size(vb, u, resolution[1])
             scale == calculate_scale(vb, u, resolution[1])
         IN  IF size.err.type # "none"
             THEN {[err |-> size.err.type, obj |-> <<>>]}
             ELSE {RendererInit(<<s[1], s[2], Quotient(s[1], vb[3])>>) :
                      s \in size.sizes}
    ELSE IF vb[3].d = 0
    THEN {[err |-> NotFinite(vb[3]).type, obj |-> <<>>]}
    ELSE IF vb[4].d = 0
    THEN {[err |-> NotFinite(vb[4]).type, obj |-> <<>>]}
    ELSE {RendererInit(<<ToInt(vb[3]), ToInt(vb[4])>>)}

Call(op, args, id) == [op |-> op, a |-> args, id |-> id]

\* float(element.get(name, 0))
Attribute(e, name) ==
    IF e.geom[name] = <<>> THEN [err |-> "none", n |-> 0, d |-> 1]
    ELSE Float(e.geom[name][1])

get_fill(styles) ==
    IF <<"fill">> \in DOMAIN styles /\ styles[<<"fill">>] # <<>>
    THEN get_color(styles[<<"fill">>])
    ELSE Returned(<<>>)

get_stroke(styles) ==
    IF <<"stroke">> \in DOMAIN styles /\ styles[<<"stroke">>] # <<>>
    THEN get_color(styles[<<"stroke">>])
    ELSE Returned(<<>>)

StrokeWidthUnits ==
    << <<"p", "x">>, <<"p", "t">>, <<"m", "m">>, <<"c", "m">>, <<"i", "n">>,
       <<"p", "c">>, <<"e", "m">>, <<"e", "x">> >>

get_stroke_width(width_str) ==
    IF width_str = <<>> THEN [err |-> "none", n |-> 1, d |-> 1]
    ELSE Float(RemoveUnit(Strip(width_str), StrokeWidthUnits))

get_stroke_width_value(styles) ==
    get_stroke_width(StylesGet(styles, <<"stroke", "-width">>, <<"1">>))

Number2(v) == [n |-> v.n, d |-> v.d]

\* set_source_rgba(color[0], color[1], color[2], opacity)
SetSource(rgb, opacity, id) ==
    Call("set_source_rgba", rgb \o <<Number2(opacity)>>, id)

\* The line join and miter limit calls of render_path.
JoinCalls(styles, id) ==
    LET stroke_linejoin ==
            StylesGet(styles, <<"stroke", "-linejoin">>, <<"m", "i", "t", "e", "r">>)
        stroke_miterlimit == StylesGet(styles, <<"stroke", "-miterlimit">>, <<>>)
        join == IF stroke_linejoin = <<"r", "o", "u", "n", "d">> THEN "round"
                ELSE IF stroke_linejoin = <<"b", "e", "v", "e", "l">> THEN "bevel"
                ELSE "miter"
    IN  <<Call("set_line_join", <<join>>, id)>>
        \o (IF stroke_miterlimit # <<>> /\ Float(stroke_miterlimit).err = "none"
            THEN <<Call("set_miter_limit",
                        <<Number2(Float(stroke_miterlimit))>>, id)>>
            ELSE <<>>)

\* The fill call that preserves the path, whether a stroke follows or not.
FillCall_Preserves(stroked) == "fill_preserve"

\* fill_preserve() when get_stroke() gives a colour, fill() otherwise.
FillCall(stroked) == IF stroked THEN "fill_preserve" ELSE "fill"

\* The fill and stroke part of render_rect and render_path: the calls issued
\* and the exception that ended it.
PaintCalls(x, isPath) ==
    Bind(parse_style(x.e.style, x.e.attrs), LAMBDA styles :
    Bind(get_fill(styles), LAMBDA fill_color :
        IF fill_color.err # "none"
        THEN [calls |-> <<>>, err |-> fill_color.err]
        ELSE
    Bind(IF fill_color.value # <<>> THEN get_fill_opacity(styles)
         ELSE [err |-> "none", n |-> 1, d |-> 1], LAMBDA fill_opacity_ :
        IF fill_opacity_.err # "none"
        THEN [calls |-> <<>>, err |-> fill_opacity_.err]
        ELSE
    Bind(IF fill_color.value # <<>>
         THEN <<SetSource(fill_color.value[1], fill_opacity_, x.id)>>
         ELSE <<>>, LAMBDA fillSource :
    Bind(get_stroke(styles), LAMBDA stroke_color :
        IF stroke_color.err # "none"
        THEN [calls |-> fillSource, err |-> stroke_color.err]
        ELSE
    Bind(IF fill_color.value # <<>>
         THEN fillSource
              \o <<Call(FillCall(stroke_color.value # <<>>), <<>>, x.id)>>
         ELSE <<>>, LAMBDA fillCalls :
        IF stroke_color.value = <<>>
        THEN [calls |-> fillCalls, err |-> "none"]
        ELSE
    Bind(get_stroke_width_value(styles), LAMBDA stroke_width_ :
        IF stroke_width_.err # "none"
        THEN [calls |-> fillCalls, err |-> stroke_width_.err]
        ELSE
    Bind(get_stroke_opacity(styles), LAMBDA stroke_opacity_ :
        IF stroke_opacity_.err # "none"
        THEN [calls |-> fillCalls, err |-> stroke_opacity_.err]
        ELSE [calls |->
                 fillCalls
                 \o <<SetSource(stroke_color.value[1], stroke_opacity_, x.id),
                      Call("set_line_width", <<Number2(stroke_width_)>>, x.id)>>
                 \o (IF isPath THEN JoinCalls(styles, x.id) ELSE <<>>)
                 \o <<Call("stroke", <<>>, x.id)>>,
              err |-> "none"]))))))))

render_rect(x) ==
    Bind(<<Attribute(x.e, "x"), Attribute(x.e, "y"), Attribute(x.e, "width"),
           Attribute(x.e, "height")>>, LAMBDA rect :
        IF \E k \in 1..4 : rect[k].err # "none"
        THEN [calls |-> <<>>, err |-> "ValueError"]
        ELSE Bind(PaintCalls(x, FALSE), LAMBDA paint :
            [calls |-> <<Call("rectangle", [k \in 1..4 |-> Number2(rect[k])],
                              x.id)>> \o paint.calls,
             err |-> paint.err]))

render_path(x) ==
    IF x.e.d = <<>> THEN [calls |-> <<>>, err |-> "none"]
    ELSE Bind(parse_path_data(x.e.d), LAMBDA c :
         Bind([k \in DOMAIN c.out |-> Call(c.out[k].op, c.out[k].a, x.id)],
              LAMBDA traced :
            IF c.err # "none" THEN [calls |-> traced, err |-> c.err]
            ELSE Bind(PaintCalls(x, TRUE), LAMBDA paint :
                [calls |-> traced \o paint.calls, err |-> paint.err])))

\* The body of the loop of render_elements.
RenderOne(x) ==
    IF x.e.tag = "rect" THEN render_rect(x)
    ELSE IF x.e.tag = "path" THEN render_path(x)
    ELSE [calls |-> <<>>, err |-> "none"]

(***************************************************************************)
(* SVGWriter.  A writer is [viewbox, root, layers]: root is the sequence   *)
(* of the children of the svg element, layers maps a layer name to the     *)
(* position of its group in root.  The elements of the model carry no id   *)
(* attribute.  A number written by add_rect is kept as the float it is the *)
(* text of.                                                                *)
(***************************************************************************)
SVGWriter(vb) == [viewbox |-> vb, root |-> <<>>, layers |-> EmptyMap]

\* str.replace(old, new) for single characters
Replace(str, old, new) ==
    [k \in DOMAIN str |-> IF str[k] = old THEN new ELSE str[k]]

\* create_layer with layer_id None
create_layer(w, layer_name) ==
    [w EXCEPT !.root = Append(@, [tag |-> "g",
                                  id |-> Replace(Lower(layer_name), " ", "_"),
                                  label |-> layer_name, children |-> <<>>]),
              !.layers = Put(@, layer_name, Len(w.root) + 1)]

\* The "get or create layer" part of add_path and add_rect, then SubElement.
AddNode(w, layer_name, node) ==
    IF layer_name # <<>>
    THEN LET v == IF layer_name \in DOMAIN w.layers THEN w
                  ELSE create_layer(w, layer_name)
             parent == v.layers[layer_name]
         IN  [v EXCEPT !.root[parent].children = Append(@, node)]
    ELSE [w EXCEPT !.root = Append(@, node)]

\* The characters of a symbol that stands for several characters.
Spell(sym) ==
    CASE sym = "fill" -> <<"f", "i", "l", "l">>
      [] sym = "stroke" -> <<"s", "t", "r", "o", "k", "e">>
      [] sym = "opacity" -> <<"o", "p", "a", "c", "i", "t", "y">>
      [] sym = "-opacity" -> <<"-", "o", "p", "a", "c", "i", "t", "y">>
      [] sym = "-width" -> <<"-", "w", "i", "d", "t", "h">>
      [] sym = "-linejoin" -> <<"-", "l", "i", "n", "e", "j", "o", "i", "n">>
      [] sym = "-linecap" -> <<"-", "l", "i", "n", "e", "c", "a", "p">>
      [] sym = "-miterlimit" ->
            <<"-", "m", "i", "t", "e", "r", "l", "i", "m", "i", "t">>
      [] sym = "-dasharray" -> <<"-", "d", "a", "s", "h", "a", "r", "r", "a", "y">>
      [] OTHER -> <<sym>>

RECURSIVE Characters(_)
Characters(str) ==
    IF str = <<>> THEN <<>> ELSE Spell(Head(str)) \o Characters(Tail(str))

\* a in b, for strings
IsIn(a, b) ==
    LET ca == Characters(a)
        cb == Characters(b)
    IN  \E k \in 0..(Len(cb) - Len(ca)) : SubSeq(cb, k + 1, k + Len(ca)) = ca

\* The loop of _build_style_string over the presentation attributes.
RECURSIVE StyleParts(_, _, _)
StyleParts(names, e, style_attr_) ==
    IF names = <<>> THEN <<>>
    ELSE LET attr == Head(names)
             value == GetAttr(e.attrs, attr)
         IN  (IF value # <<>> /\ ~IsIn(attr, style_attr_)
              THEN <<attr \o <<":">> \o value[1]>>
              ELSE <<>>)
             \o StyleParts(Tail(names), e, style_attr_)

build_style_string(e) ==
    Join((IF e.style # <<>> THEN <<e.style>> ELSE <<>>)
         \o StyleParts(svg_style_attrs, e, e.style), <<";">>)

\* add_element_from_lxml: the exception raised, or the writer afterwards.
add_element_from_lxml(w, e, layer_name) ==
    IF e.tag = "path"
    THEN [err |-> "none",
          w |-> AddNode(w, layer_name,
                        [tag |-> "path", d |-> e.d,
                         style |-> build_style_string(e)])]
    ELSE IF e.tag = "rect"
    THEN Bind(<<Attribute(e, "x"), Attribute(e, "y"), Attribute(e, "width"),
                Attribute(e, "height")>>, LAMBDA rect :
            IF \E k \in 1..4 : rect[k].err # "none"
            THEN [err |-> "ValueError", w |-> w]
            ELSE [err |-> "none",
                  w |-> AddNode(w, layer_name,
                                [tag |-> "rect", x |-> Number2(rect[1]),
                                 y |-> Number2(rect[2]),
                                 width |-> Number2(rect[3]),
                                 height |-> Number2(rect[4]),
                                 style |-> build_style_string(e)])])
    ELSE [err |-> "none", w |-> w]

\* for element in elements: writer.add_element_from_lxml(element, layer_name)
RECURSIVE AddElements(_, _, _)
AddElements(w, elems, layer_name) ==
    IF elems = <<>> THEN [err |-> "none", w |-> w]
    ELSE Bind(add_element_from_lxml(w, Head(elems).e, layer_name), LAMBDA r :
            IF r.err # "none" THEN r
            ELSE AddElements(r.w, Tail(elems), layer_name))

\* copy_layer_to_new_svg that saves before it adds the elements
copy_layer_to_new_svg_SavesFirst(elems, vb, layer_name) ==
    Bind(create_layer(SVGWriter(vb), layer_name), LAMBDA writer :
    Bind(AddElements(writer, elems, layer_name), LAMBDA r :
        [err |-> r.err, w |-> r.w, saved |-> <<writer>>]))

\* copy_layer_to_new_svg with an output path: the exception raised, the
\* writer, and what save has written.
copy_layer_to_new_svg(elems, vb, layer_name) ==
    Bind(create_layer(SVGWriter(vb), layer_name), LAMBDA writer :
    Bind(AddElements(writer, elems, layer_name), LAMBDA r :
        [err |-> r.err, w |-> r.w,
         saved |-> IF r.err = "none" THEN <<r.w>> ELSE <<>>]))

(***************************************************************************)
(* SVGRenderer: the loops over the layer names and the export calls.       *)
(***************************************************************************)
\* The loop of render_layers_to_png: the exception raised and its message,
\* or all_elements.
RECURSIVE ExtractAll(_, _)
ExtractAll(layers, names) ==
    IF names = <<>> THEN [err |-> "none", msg |-> <<>>, elements |-> <<>>]
    ELSE Bind(get_layer(layers, Head(names)), LAMBDA layer :
            IF layer.err # "none"
            THEN [err |-> layer.err, msg |-> layer.msg, elements |-> <<>>]
            ELSE Bind(ExtractAll(layers, Tail(names)), LAMBDA rest :
                IF rest.err # "none" THEN rest
                ELSE [rest EXCEPT !.elements =
                         extract_elements(layers, layer.layer) \o @]))

\* export_layer_to_svg: the exception raised and its message, the warning,
\* and what has been written.
export_layer_to_svg(layers, layer_name, vb) ==
    Bind(get_layer(layers, layer_name), LAMBDA layer :
        IF layer.err # "none"
        THEN [err |-> layer.err, msg |-> layer.msg, warned |-> FALSE,
              saved |-> <<>>]
        ELSE Bind(extract_elements(layers, layer.layer), LAMBDA found :
            IF found = <<>>
            THEN [err |-> "none", msg |-> <<>>, warned |-> TRUE,
                  saved |-> <<>>]
            ELSE Bind(copy_layer_to_new_svg(found, vb, layer_name),
                      LAMBDA writer :
                [err |-> writer.err, msg |-> <<>>, warned |-> FALSE,
                 saved |-> writer.saved])))

\* The loop of export_layers_to_svg.
RECURSIVE ExportAll(_, _, _)
ExportAll(w, layers, names) ==
    IF names = <<>> THEN [err |-> "none", msg |-> <<>>, w |-> w]
    ELSE Bind(get_layer(layers, Head(names)), LAMBDA layer :
            IF layer.err # "none"
            THEN [err |-> layer.err, msg |-> layer.msg, w |-> w]
            ELSE Bind(extract_elements(layers, layer.layer), LAMBDA found :
                IF found = <<>> THEN ExportAll(w, layers, Tail(names))
                ELSE Bind(AddElements(create_layer(w, Head(names)), found,
                                      Head(names)), LAMBDA added :
                    IF added.err # "none"
                    THEN [err |-> added.err, msg |-> <<>>, w |-> added.w]
                    ELSE ExportAll(added.w, layers, Tail(names)))))

export_layers_to_svg(layers, names, vb) ==
    Bind(ExportAll(SVGWriter(vb), layers, names), LAMBDA r :
        [err |-> r.err, msg |-> r.msg, warned |-> FALSE,
         saved |-> IF r.err = "none" THEN <<r.w>> ELSE <<>>])

(***************************************************************************)
(* The render and export calls as a state machine.                         *)
(***************************************************************************)
GoodPath == <<Cmd("M"), Num(1), Num(2), Cmd("L"), Num(2), Num(1)>>

BadPath == <<Cmd("M"), Num(1)>>

NoGeom == [a \in {"x", "y", "width", "height"} |-> <<>>]

GoodGeom ==
    [NoGeom EXCEPT !["x"] = <<<<"1">>>>, !["y"] = <<<<"2">>>>,
                   !["width"] = <<<<"3">>>>, !["height"] = <<<<"1", ".", "5">>>>]

BadGeom == [GoodGeom EXCEPT !["width"] = <<<<"x">>>>]

Element(tag, geom, d, style, element_attrs) ==
    [tag |-> tag, geom |-> geom, d |-> d, style |-> style,
     attrs |-> element_attrs]

Red == <<"r", "e", "d">>

Attr(name, value) == name :> <<value>>

\* The style and the presentation attributes of an element: no paint; each
\* of fill and stroke absent, none, empty, a colour, black, and not a
\* colour; opacities, stroke widths, line joins and miter limits that can
\* and that cannot be decoded.
Paints ==
    {[style |-> <<>>, attrs |-> a] :
        a \in {EmptyMap,
               Attr(<<"fill">>, Red),
               Attr(<<"fill">>, <<"#", "0", "0", "0">>),
               Attr(<<"fill">>, <<"n", "o", "n", "e">>),
               Attr(<<"fill">>, <<"x">>),
               Attr(<<"fill">>, <<>>),
               Attr(<<"stroke">>, Red),
               Attr(<<"stroke">>, <<"n", "o", "n", "e">>),
               Attr(<<"stroke">>, <<"x">>),
               Attr(<<"fill">>, Red) @@ Attr(<<"stroke">>, <<"b", "l", "u", "e">>),
               Attr(<<"fill">>, Red) @@ Attr(<<"stroke">>, <<"x">>),
               Attr(<<"fill">>, <<"n", "o", "n", "e">>) @@ Attr(<<"stroke">>, Red),
               Attr(<<"fill">>, Red) @@ Attr(<<"fill", "-opacity">>, <<"x">>),
               Attr(<<"fill", "-opacity">>, <<"x">>),
               Attr(<<"fill">>, Red) @@ Attr(<<"fill", "-opacity">>, <<"5", "0", "%">>),
               Attr(<<"stroke">>, Red) @@ Attr(<<"stroke", "-width">>, <<"2", "p", "x">>),
               Attr(<<"fill">>, Red) @@ Attr(<<"stroke">>, Red)
                  @@ Attr(<<"stroke", "-width">>, <<"x">>),
               Attr(<<"stroke">>, Red) @@ Attr(<<"stroke", "-opacity">>, <<"x">>),
               Attr(<<"stroke">>, Red)
                  @@ Attr(<<"stroke", "-linejoin">>, <<"r", "o", "u", "n", "d">>)
                  @@ Attr(<<"stroke", "-miterlimit">>, <<"4">>),
               Attr(<<"stroke">>, Red) @@ Attr(<<"stroke", "-miterlimit">>, <<"x">>)}}
    \cup
    {[style |-> s, attrs |-> Attr(<<"fill">>, Red)] :
        s \in {<<"fill", ":", "n", "o", "n", "e">>,
               <<"fill", ":", ";", "stroke", ":", " ", "r", "e", "d">>,
               <<"fill", "-opacity", ":", "0", ".", "5">>}}

\* A rect and a path with each paint.
PaintedElements ==
    {Element("rect", GoodGeom, <<>>, p.style, p.attrs) : p \in Paints}
    \cup {Element("path", NoGeom, GoodPath, p.style, p.attrs) : p \in Paints}

\* The elements of the documents of more than one element: rects and paths
\* that can be drawn, a rect and a path that cannot, a path without data
\* and an element that is neither.
ElementKinds ==
    {Element("rect", GoodGeom, <<>>, <<>>, Attr(<<"fill">>, Red)),
     Element("rect", NoGeom, <<>>, <<>>, Attr(<<"stroke">>, Red)),
     Element("rect", BadGeom, <<>>, <<>>, Attr(<<"fill">>, Red)),
     Element("path", NoGeom, GoodPath, <<"fill", ":", "r", "e", "d">>, EmptyMap),
     Element("path", NoGeom, BadPath, <<>>, Attr(<<"fill">>, Red)),
     Element("path", NoGeom, <<>>, <<>>, Attr(<<"fill">>, Red)),
     Element("circle", NoGeom, <<>>, <<>>, Attr(<<"fill">>, Red))}

ElementSeqs == UNION {[1..n -> ElementKinds] : n \in 0..MaxElems}

Layer(label, id, elems) == [label |-> label, id |-> id, elems |-> elems]

LayerA(elems) == Layer(<<<<"A">>>>, <<<<"a", "1">>>>, elems)

LayerB(elems) == Layer(<<<<"B">>>>, <<<<"b", "1">>>>, elems)

\* Two labelled layers of at most MaxElems elements together.
Documents ==
    UNION {{<<LayerA(a), LayerB(b)>> :
               a \in [1..n[1] -> ElementKinds], b \in [1..n[2] -> ElementKinds]} :
           n \in {p \in (0..MaxElems) \X (0..MaxElems) : p[1] + p[2] <= MaxElems}}

\* One layer of one element.
PaintedDocuments == {<<LayerA(<<e>>)>> : e \in PaintedElements}

\* One layer of two elements on which the second is drawn with the context
\* the first has left: a first element without paint, with a fill of none,
\* with a fill, and stroked with a round join and a miter limit; a second
\* element filled, stroked, stroked with a miter limit that cannot be
\* decoded, and without paint.
EarlierElements ==
    {Element("rect", GoodGeom, <<>>, <<>>, EmptyMap),
     Element("path", NoGeom, GoodPath, <<>>, EmptyMap),
     Element("rect", GoodGeom, <<>>, <<>>, Attr(<<"fill">>, <<"n", "o", "n", "e">>)),
     Element("rect", GoodGeom, <<>>, <<>>, Attr(<<"fill">>, Red)),
     Element("path", NoGeom, GoodPath, <<>>,
             Attr(<<"stroke">>, Red)
                @@ Attr(<<"stroke", "-linejoin">>, <<"r", "o", "u", "n", "d">>)
                @@ Attr(<<"stroke", "-miterlimit">>, <<"4">>))}

LaterElements ==
    {Element("rect", GoodGeom, <<>>, <<>>, Attr(<<"fill">>, Red)),
     Element("rect", GoodGeom, <<>>, <<>>, Attr(<<"stroke">>, Red)),
     Element("path", NoGeom, GoodPath, <<>>, Attr(<<"stroke">>, Red)),
     Element("path", NoGeom, GoodPath, <<>>,
             Attr(<<"stroke">>, Red) @@ Attr(<<"stroke", "-miterlimit">>, <<"x">>)),
     Element("path", NoGeom, GoodPath, <<>>, EmptyMap)}

SequencedDocuments ==
    {<<LayerA(<<a, b>>)>> : a \in EarlierElements, b \in LaterElements}

\* Layers with and without a label and an id, empty or of one rect.
LayerKinds ==
    {Layer(l.label, l.id, s) :
        l \in {[label |-> <<<<"A">>>>, id |-> <<<<"a", "1">>>>],
               [label |-> <<<<"L", " ", "1">>>>, id |-> <<<<"A">>>>],
               [label |-> <<>>, id |-> <<<<"b", "1">>>>],
               [label |-> <<>>, id |-> <<>>]},
        s \in {<<>>, <<Element("rect", GoodGeom, <<>>, <<>>, Attr(<<"fill">>, Red))>>}}

LayerDocuments == UNION {[1..n -> LayerKinds] : n \in 0..2}

\* The identifiers of a call: labels and ids of LayerKinds, a name of no
\* layer, and a name with a double quote.
Identifiers ==
    {<<"A">>, <<"a", "1">>, <<"L", " ", "1">>, <<"b", "1">>, <<"X">>,
     <<"a", Quote, "b">>}

\* The root elements of the documents of the render calls.
Viewports ==
    {Attributes(<<ViewBox(<<"1", "0", "0">>, <<"1", "0", "0">>)>>, <<>>, <<>>),
     Attributes(<<>>, <<<<"2", "1", "0", "m", "m">>>>, <<<<"2", "9", "7", "m", "m">>>>),
     Attributes(<<ViewBox(<<"1", "0", "0", ".", "7">>, <<"5", "0", ".", "5">>)>>,
                <<>>, <<>>)}

DefaultViewport ==
    Attributes(<<ViewBox(<<"1", "0", "0">>, <<"1", "0", "0">>)>>, <<>>, <<>>)

Resolutions == {<<>>, <<96>>, <<300>>}

LayerSelections == {<<<<"A">>>>, <<<<"B">>>>, <<<<"A">>, <<"B">>>>, <<>>}

RenderMethods == {"render_layer_to_png", "render_layers_to_png"}

ExportMethods == {"export_layer_to_svg", "export_layers_to_svg"}

OneLayerMethods == {"render_layer_to_png", "export_layer_to_svg"}

Scenario(m, layers, names, v, resolution) ==
    [method |-> m, doc |-> layers, layer_names |-> names, root |-> v,
     dpi |-> resolution]

\* The viewports and resolutions of the documents of several elements: the
\* default viewport in native mode and at 96 dots per inch, and millimetres
\* at 300 dots per inch.
ResolvedViewports ==
    {[root |-> DefaultViewport, dpi |-> <<>>],
     [root |-> DefaultViewport, dpi |-> <<96>>],
     [root |-> Attributes(<<>>, <<<<"2", "1", "0", "m", "m">>>>,
                          <<<<"2", "9", "7", "m", "m">>>>),
      dpi |-> <<300>>]}

\* The call of scenario s is about to start.
Start(s) ==
    /\ s.method \in OneLayerMethods => Len(s.layer_names) = 1
    /\ s.method \in ExportMethods => s.dpi = <<>>
    /\ method = s.method
    /\ doc = s.doc
    /\ layer_names = s.layer_names
    /\ viewbox = get_viewbox(s.root).value
    /\ unit = get_document_unit(s.root)
    /\ dpi = s.dpi

\* What a call of method m starts from: documents of several elements under
\* the viewports above; documents of one painted element; documents of two
\* elements drawn one after the other; documents of
\* layers with and without labels and ids, asked for by every identifier;
\* one layer of one rect under every viewport at every resolution.
Scenarios(m) ==
    \/ \E d \in Documents, n \in LayerSelections, v \in ResolvedViewports :
          Start(Scenario(m, d, n, v.root, v.dpi))
    \/ \E d \in PaintedDocuments :
          /\ m \in OneLayerMethods
          /\ Start(Scenario(m, d, <<<<"A">>>>, DefaultViewport, <<>>))
    \/ \E d \in SequencedDocuments :
          /\ m \in RenderMethods
          /\ Start(Scenario(m, d, <<<<"A">>>>, DefaultViewport, <<>>))
    \/ \E d \in LayerDocuments, a \in Identifiers :
          \/ Start(Scenario(m, d, <<a>>, DefaultViewport, <<>>))
          \/ \E b \in Identifiers :
                Start(Scenario(m, d, <<a, b>>, DefaultViewport, <<>>))
    \/ \E v \in Viewports, r \in Resolutions :
          /\ m \in RenderMethods
          /\ Start(Scenario(m, <<LayerA(<<Element("rect", GoodGeom, <<>>, <<>>,
                                                 Attr(<<"fill">>, Red))>>)>>,
                            <<<<"A">>>>, v, r))

InitRender ==
    /\ PathIdle
    /\ StyleIdle
    /\ ColorIdle
    /\ ParserIdle
    /\ \E m \in RenderMethods \cup ExportMethods : Scenarios(m)
    /\ elements = <<>>
    /\ renderer = <<>>
    /\ calls = <<>>
    /\ next_el = 0
    /\ png = <<>>
    /\ svg_file = <<>>
    /\ warned = FALSE
    /\ rerr = "none"
    /\ rmsg = <<>>
    /\ rpc = "start"

\* get_layer and extract_elements for every name; the warning and the
\* return when there is nothing to draw.
GetLayers ==
    /\ rpc = "start"
    /\ method \in RenderMethods
    /\ \E r \in {ExtractAll(doc, layer_names)} :
           /\ rerr' = r.err
           /\ rmsg' = r.msg
           /\ elements' = r.elements
           /\ warned' = (r.err = "none" /\ r.elements = <<>>)
           /\ rpc' = IF r.err # "none" THEN "error"
                     ELSE IF r.elements = <<>> THEN "done"
                     ELSE "create"
    /\ UNCHANGED <<method, doc, layer_names, viewbox, unit, dpi, renderer,
                   calls, next_el, png, svg_file>>
    /\ UNCHANGED <<pathVars, styleVars, colorVars, parserVars>>

\* _create_renderer, then setup_surface.
CreateRenderer ==
    /\ rpc = "create"
    /\ \E r \in create_renderer(viewbox, unit, dpi) :
          IF r.err # "none"
          THEN /\ rerr' = r.err
               /\ rpc' = "error"
               /\ UNCHANGED <<renderer, calls, next_el>>
          ELSE /\ renderer' = r.obj
               /\ calls' = <<Call("set_source_rgb", <<1, 1, 1>>, <<>>),
                             Call("paint", <<>>, <<>>)>>
               /\ next_el' = 1
               /\ rpc' = "render"
               /\ rerr' = "none"
    /\ UNCHANGED <<method, doc, layer_names, viewbox, unit, dpi, elements, png,
                   svg_file, warned, rmsg>>
    /\ UNCHANGED <<pathVars, styleVars, colorVars, parserVars>>

\* One iteration of the loop of render_elements.
RenderElement ==
    /\ rpc = "render"
    /\ next_el <= Len(elements)
    /\ \E r \in {RenderOne(elements[next_el])} :
           /\ calls' = calls \o r.calls
           /\ rerr' = r.err
           /\ rpc' = IF r.err # "none" THEN "error" ELSE "render"
           /\ next_el' = IF r.err # "none" THEN next_el ELSE next_el + 1
    /\ UNCHANGED <<method, doc, layer_names, viewbox, unit, dpi, elements,
                   renderer, png, svg_file, warned, rmsg>>
    /\ UNCHANGED <<pathVars, styleVars, colorVars, parserVars>>

save_png ==
    /\ rpc = "render"
    /\ next_el > Len(elements)
    /\ png' = renderer
    /\ rpc' = "done"
    /\ UNCHANGED <<method, doc, layer_names, viewbox, unit, dpi, elements,
                   renderer, calls, next_el, svg_file, warned, rerr, rmsg>>
    /\ UNCHANGED <<pathVars, styleVars, colorVars, parserVars>>

\* What an export call leaves behind.
Exported(result) ==
    \E r \in {result} :
    /\ rerr' = r.err
    /\ rmsg' = r.msg
    /\ warned' = r.warned
    /\ svg_file' = r.saved
    /\ rpc' = IF r.err # "none" THEN "error" ELSE "done"
    /\ UNCHANGED <<method, doc, layer_names, viewbox, unit, dpi, elements,
                   renderer, calls, next_el, png>>
    /\ UNCHANGED <<pathVars, styleVars, colorVars, parserVars>>

ExportLayer ==
    /\ rpc = "start"
    /\ method = "export_layer_to_svg"
    /\ Exported(export_layer_to_svg(doc, layer_names[1], viewbox))

ExportLayers ==
    /\ rpc = "start"
    /\ method = "export_layers_to_svg"
    /\ Exported(export_layers_to_svg(doc, layer_names, viewbox))

NextRender ==
    \/ GetLayers
    \/ CreateRenderer
    \/ RenderElement
    \/ save_png
    \/ ExportLayer
    \/ ExportLayers

SpecRender == InitRender /\ [][NextRender]_vars

(***************************************************************************)
(* Properties of the render and export calls.                              *)
(***************************************************************************)
Finished == rpc \in {"done", "error"}

\* The call is a render call that selects existing layers which hold at
\* least one rect or path, and every element among them can be drawn: its
\* path data, its rect attributes and its paint are well formed.
Drawable ==
    /\ method \in RenderMethods
    /\ ExtractAll(doc, layer_names).err = "none"
    /\ ExtractAll(doc, layer_names).elements # <<>>
    /\ \A k \in DOMAIN ExtractAll(doc, layer_names).elements :
          RenderOne(ExtractAll(doc, layer_names).elements[k]).err = "none"

\* C2: in DPI mode a render call on drawable layers ends without an error and
\* has written an image of round(viewbox size * inches per unit * dpi)
\* pixels.
C2_DpiModeRenders ==
    (Finished /\ dpi # <<>> /\ Drawable) =>
        /\ rerr = "none"
        /\ png \in {<<[width |-> s[1], height |-> s[2]]>> :
                       s \in calculate_pixel_size(viewbox, unit, dpi[1]).sizes}

GeometryOps == {"rectangle", "move_to", "line_to", "curve_to", "close_path"}

\* The geometry calls issued, in order.
IssuedGeometry == SelectSeq(calls, LAMBDA c : c.op \in GeometryOps)

\* The geometry of an element in document coordinates.
DocumentGeometry(x) ==
    IF x.e.tag = "rect"
    THEN <<Call("rectangle",
                <<Number2(Attribute(x.e, "x")), Number2(Attribute(x.e, "y")),
                  Number2(Attribute(x.e, "width")),
                  Number2(Attribute(x.e, "height"))>>, x.id)>>
    ELSE LET out == parse_path_data(x.e.d).out
         IN  [k \in DOMAIN out |-> Call(out[k].op, out[k].a, x.id)]

\* The geometry of a sequence of elements, one element after the other.
RECURSIVE GeometryOf(_)
GeometryOf(elems) ==
    IF elems = <<>> THEN <<>>
    ELSE DocumentGeometry(Head(elems)) \o GeometryOf(Tail(elems))

\* scale = pixelWidth / viewboxWidth in DPI mode, 1 in native mode.
ScaleOfCall ==
    IF dpi = <<>> THEN {[n |-> 1, d |-> 1]}
    ELSE calculate_scale(viewbox, unit, dpi[1]).scales

\* The coordinate got is the coordinate want times the scale; the
\* coordinates of a rectangle are fractions, those of a path are integers.
IsScaled(op, got, want, scale) ==
    IF op = "rectangle"
    THEN got.n * want.d * scale.d = want.n * scale.n * got.d
    ELSE got * scale.d = want * scale.n

\* C3: once a render call on drawable layers has ended, the geometry calls
\* issued are those of the elements drawn, each with the element's document
\* coordinates multiplied by the scale.
C3_ScaledCoordinates ==
    (Finished /\ Drawable) =>
        \E scale \in ScaleOfCall :
            LET got == IssuedGeometry
                want == GeometryOf(elements)
            IN  /\ Len(got) = Len(want)
                /\ \A j \in DOMAIN got :
                      /\ got[j].op = want[j].op
                      /\ got[j].id = want[j].id
                      /\ Len(got[j].a) = Len(want[j].a)
                      /\ \A n \in DOMAIN got[j].a :
                            IsScaled(got[j].op, got[j].a[n], want[j].a[n],
                                     scale)

\* C4: the calls issued for the elements of one layer follow the document
\* order of those elements.
C4_DocumentOrder ==
    \A j, k \in DOMAIN calls :
        (/\ j < k
         /\ calls[j].id # <<>>
         /\ calls[k].id # <<>>
         /\ calls[j].id[1] = calls[k].id[1])
        => calls[j].id[2] <= calls[k].id[2]

\* t is the float v without its fraction.
IsTruncation(t, v) ==
    IF v.n >= 0 THEN t * v.d <= v.n /\ v.n < (t + 1) * v.d
    ELSE (t - 1) * v.d < v.n /\ v.n <= t * v.d

\* C13: in native mode a render call on drawable layers writes an image whose
\* width and height are the viewbox width and height without their
\* fractions, and issues every coordinate as the document gives it (the
\* scale is 1); under viewBox "0 0 100 100" the image is 100 x 100.
C13_NativeSize ==
    (Finished /\ dpi = <<>> /\ Drawable) =>
        /\ rerr = "none"
        /\ png # <<>>
        /\ IsTruncation(png[1].width, viewbox[3])
        /\ IsTruncation(png[1].height, viewbox[4])
        /\ (SameNumber(viewbox[3], Number(100))
            /\ SameNumber(viewbox[4], Number(100)))
              => png = <<[width |-> 100, height |-> 100]>>
        /\ IssuedGeometry = GeometryOf(elements)

\* C13 witness: a native render under viewBox "0 0 100.7 50.5" has written
\* an image of 100 x 50 pixels.
C13_Witness ==
    /\ dpi = <<>>
    /\ viewbox[3] = [n |-> 1007, d |-> 10]
    /\ viewbox[4] = [n |-> 505, d |-> 10]
    /\ png = <<[width |-> 100, height |-> 50]>>
    /\ calls # <<>>

LayerNotFound == "ValueError"

\* No layer of the document has the identifier as its label or as its id.
NoSuchLayer(identifier) ==
    \A k \in DOMAIN doc :
        doc[k].label # <<identifier>> /\ doc[k].id # <<identifier>>

\* C16: a call that names an identifier which is neither the label nor the
\* id of a layer ends with the error of a layer not found, and the message
\* of the error holds every name that list_layers returns.
C16_LayerNotFound ==
    (Finished /\ \E k \in DOMAIN layer_names : NoSuchLayer(layer_names[k])) =>
        /\ rerr = LayerNotFound
        /\ rmsg # <<>>
        /\ \A k \in DOMAIN list_layers(doc) :
              IsIn(list_layers(doc)[k], rmsg[1].available)

PaintOps == {"fill", "fill_preserve", "stroke"}

\* The fill and stroke calls issued, in order, each with its element.
IssuedPaint ==
    LET issued == SelectSeq(calls, LAMBDA c : c.op \in PaintOps)
    IN  [k \in DOMAIN issued |-> <<issued[k].op, issued[k].id>>]

\* The decoded fill and stroke colours of an element: <<>> for None.
FillColor(e) == get_fill(parse_style(e.style, e.attrs)).value

StrokeColor(e) == get_stroke(parse_style(e.style, e.attrs)).value

\* The fill and stroke calls an element is to get: a fill when it has a
\* fill colour, which preserves the path when it has a stroke colour too,
\* and then a stroke when it has a stroke colour.
PaintOf(x) ==
    (IF FillColor(x.e) = <<>> THEN <<>>
     ELSE IF StrokeColor(x.e) = <<>> THEN << <<"fill", x.id>> >>
     ELSE << <<"fill_preserve", x.id>> >>)
    \o (IF StrokeColor(x.e) = <<>> THEN <<>> ELSE << <<"stroke", x.id>> >>)

RECURSIVE PaintOfAll(_)
PaintOfAll(elems) ==
    IF elems = <<>> THEN <<>>
    ELSE PaintOf(Head(elems)) \o PaintOfAll(Tail(elems))

\* The element declares no fill, neither in its style nor as an attribute.
NoFillDeclared(e) ==
    /\ GetAttr(e.attrs, <<"fill">>) = <<>>
    /\ DeclarationsOf(e.style, <<"fill">>) = {}

\* The path elements with data and the rect elements: the elements that
\* render_elements paints.
Painted(elems) ==
    SelectSeq(elems, LAMBDA x : x.e.tag = "rect" \/ x.e.d # <<>>)

RECURSIVE Written(_)
Written(nodes) ==
    IF nodes = <<>> THEN 0
    ELSE (IF Head(nodes).tag = "g" THEN Len(Head(nodes).children) ELSE 1)
         + Written(Tail(nodes))

\* C18: a call that ends with an error has written no file; an image is
\* written only when every element selected has been rendered, and an SVG
\* file only with every element selected in it.
C18_AllOrNothing ==
    /\ rerr # "none" => (png = <<>> /\ svg_file = <<>>)
    /\ png # <<>> =>
          /\ rerr = "none"
          /\ ExtractAll(doc, layer_names).err = "none"
          /\ elements = ExtractAll(doc, layer_names).elements
          /\ next_el = Len(elements) + 1
          /\ IssuedGeometry = GeometryOf(elements)
    /\ svg_file # <<>> =>
          /\ rerr = "none"
          /\ ExtractAll(doc, layer_names).err = "none"
          /\ Written(svg_file[1].root)
                = Len(ExtractAll(doc, layer_names).elements)

\* C18 witness: an export call has failed on a rect after it had added an
\* element to the new document.
C18_Witness ==
    /\ method \in ExportMethods
    /\ rpc = "error"
    /\ rerr = "ValueError"
    /\ rmsg = <<>>
    /\ \E k \in DOMAIN doc : doc[k].elems # <<>> /\ doc[k].elems[1].geom # BadGeom

\* C19: a call on existing layers that hold no rect and no path ends without
\* an error and with a warning.
C19_EmptyWarns ==
    (/\ Finished
     /\ ExtractAll(doc, layer_names).err = "none"
     /\ ExtractAll(doc, layer_names).elements = <<>>)
    => (rerr = "none" /\ warned)

\* The label lowercased, with an underscore for every blank.
Underscored(label) ==
    [k \in DOMAIN label |->
        IF label[k] = " " THEN "_" ELSE LowerChar(label[k])]

\* The layers an export call writes: those selected that hold a rect or a
\* path.
ExportedLayers ==
    {get_layer(doc, layer_names[k]).layer : k \in DOMAIN layer_names}
    \cap {l \in DOMAIN doc : extract_elements(doc, l) # <<>>}

\* C20: the file of an export call holds one group for each exported layer;
\* the group of a layer with a label carries that label, and its id is the
\* label lowercased with an underscore for every blank.
C20_OneGroupPerLayer ==
    svg_file # <<>> =>
        LET groups == SelectSeq(svg_file[1].root, LAMBDA node : node.tag = "g")
        IN  /\ Len(groups) = Cardinality(ExportedLayers)
            /\ \A l \in ExportedLayers :
                  doc[l].label # <<>> =>
                      \E k \in DOMAIN groups :
                          /\ groups[k].label = doc[l].label[1]
                          /\ groups[k].id = Underscored(doc[l].label[1])


\* The property map of an element.
StylesOf(e) == parse_style(e.style, e.attrs)

\* A colour, an opacity or the stroke width of the element cannot be decoded.
Undecodable(e) ==
    \/ get_fill(StylesOf(e)).err # "none"
    \/ get_stroke(StylesOf(e)).err # "none"
    \/ get_fill_opacity(StylesOf(e)).err # "none"
    \/ get_stroke_opacity(StylesOf(e)).err # "none"
    \/ get_stroke_width_value(StylesOf(e)).err # "none"

\* The rect attributes or the path data of the element are well formed.
GeometryFine(e) ==
    IF e.tag = "rect"
    THEN \A a \in {"x", "y", "width", "height"} : Attribute(e, a).err = "none"
    ELSE parse_path_data(e.d).err = "none"

\* The element declares a miter limit that is not a number.
BadMiterLimit(e) ==
    LET limit == StylesGet(StylesOf(e), <<"stroke", "-miterlimit">>, <<>>)
    IN  limit # <<>> /\ Float(limit).err # "none"

\* The render call has a renderer and has rendered this many elements.
Rendered == IF renderer = <<>> THEN 0 ELSE next_el - 1

\* C21: an element that has been rendered without an error has no colour,
\* opacity or stroke width that cannot be decoded, and is stroked when it
\* has a stroke colour, whatever its miter limit; an element of good
\* geometry whose rendering ended with an error has such a property.
C21_MiterLimitTolerated ==
    /\ \A k \in 1..Rendered :
          (elements[k].e.tag = "rect" \/ elements[k].e.d # <<>>) =>
              /\ ~Undecodable(elements[k].e)
              /\ StrokeColor(elements[k].e) # <<>> =>
                    \E j \in DOMAIN IssuedPaint :
                        IssuedPaint[j] = <<"stroke", elements[k].id>>
    /\ (rpc = "error" /\ renderer # <<>>
        /\ GeometryFine(elements[next_el].e)) =>
              Undecodable(elements[next_el].e)

(***************************************************************************)
(* StyleParser.get_stroke_width_value on an element whose properties are   *)
(* parsed.                                                                 *)
(***************************************************************************)
MaxWidthLen == 3

WidthChars == {"2", "0", "-", ".", "p", "x", " "}

WidthStrings == UNION {[1..n -> WidthChars] : n \in 0..MaxWidthLen}

\* The element's properties are parsed; a stroke width may be declared.
InitWidth ==
    /\ PathIdle
    /\ RenderIdle
    /\ ColorIdle
    /\ ParserIdle
    /\ style_attr = <<>>
    /\ attrs = <<>>
    /\ \/ style_dict = <<EmptyMap>>
       \/ \E raw \in WidthStrings :
             style_dict = <<Put(EmptyMap, <<"stroke", "-width">>, raw)>>
    /\ fill_opacity = <<>>
    /\ stroke_opacity = <<>>
    /\ stroke_width = <<>>
    /\ serr = "none"
    /\ spc = "parsed"

CallGetStrokeWidthValue ==
    /\ spc = "parsed"
    /\ \E v \in {get_stroke_width_value(style_dict[1])} :
           /\ serr' = v.err
           /\ stroke_width' = IF v.err # "none" THEN stroke_width
                              ELSE <<[n |-> v.n, d |-> v.d]>>
    /\ UNCHANGED <<style_attr, attrs, style_dict, fill_opacity, stroke_opacity,
                   spc>>
    /\ UNCHANGED <<pathVars, renderVars, colorVars, parserVars>>

NextWidth == CallGetStrokeWidthValue

SpecWidth == InitWidth /\ [][NextWidth]_vars

\* The stroke width the element declares: <<>> when it declares none.
DeclaredWidth == StylesGet(style_dict[1], <<"stroke", "-width">>, <<>>)

\* C22: every stroke width that get_stroke_width_value has returned is a
\* number that is not negative, and it is 1 when the element declares no
\* stroke width or an empty one.
C22_StrokeWidthNotNegative ==
    stroke_width # <<>> =>
        /\ stroke_width[1].d > 0
        /\ stroke_width[1].n >= 0
        /\ DeclaredWidth = <<>> => stroke_width[1] = [n |-> 1, d |-> 1]

(***************************************************************************)
(* The interpreter run to its end: the while loop of _parse_path_data is   *)
(* one thread that takes its next iteration whenever there is one, so the  *)
(* specification is weakly fair on the iterations.  Its path strings are   *)
(* every string of at most MaxLiveLen lexemes and strings with whole       *)
(* curves.                                                                 *)
(***************************************************************************)
MaxLiveLen == 3

LiveLexemes == {Cmd(l) : l \in CommandLetters} \cup {Num(1), Other}

LivePaths == UNION {[1..n -> LiveLexemes] : n \in 0..MaxLiveLen}

CurvePaths ==
    {h \o <<Cmd(l), Num(1), Num(2), Num(2), Num(1), Num(1), Num(1)>> \o t :
        h \in CommandHeads, l \in {"C", "c"}, t \in CommandTails}
    \cup
    {h \o <<Cmd("z"), Num(1), Num(2)>> \o t :
        h \in CommandHeads \ {<<>>}, t \in CommandTails}

InitPathLive ==
    /\ path_data \in LivePaths \cup CurvePaths
    /\ tokens = <<>>
    /\ i = 0
    /\ current_x = 0
    /\ current_y = 0
    /\ current_command = "None"
    /\ context_path = <<>>
    /\ perr = "none"
    /\ ppc = "start"
    /\ RenderIdle
    /\ StyleIdle
    /\ ColorIdle
    /\ ParserIdle

FairSpecPath == InitPathLive /\ [][NextPath]_vars /\ WF_vars(NextPath)

\* C23: the token position never moves backwards and never passes the end
\* of the tokens, every iteration after which the loop goes on has advanced
\* it by at least one, and the interpretation ends, with the tokens
\* exhausted or with an error.
C23_Terminates ==
    /\ [][/\ i' >= i
          /\ i' <= Len(tokens')
          /\ (ppc = "loop" /\ ppc' = "loop") => i' > i]_vars
    /\ <>(ppc \in {"done", "error"})

\* C23 witness: a path of several tokens, with numbers that are skipped and
\* a close, was interpreted to the end.
C23_Witness ==
    /\ ppc = "done"
    /\ i = Len(tokens)
    /\ Len(tokens) >= 3
    /\ \E k \in DOMAIN context_path : context_path[k].op = "close_path"

(***************************************************************************)
(* Further properties of the path interpreter.                             *)
(***************************************************************************)
\* The loop is at a number while no command is active.
AtNumberWithoutCommand ==
    /\ InLoop
    /\ ~IsCommand(Tok(tokens, i))
    /\ current_command = "None"

\* C26: an iteration at a number token while no command is active moves to
\* the next token and does nothing else: it issues no call, raises no
\* error, and leaves the current point and the active command as they are.
C26_NumbersSkipped ==
    [][AtNumberWithoutCommand =>
          /\ i' = i + 1
          /\ context_path' = context_path
          /\ current_x' = current_x
          /\ current_y' = current_y
          /\ current_command' = "None"
          /\ perr' = "none"]_vars

\* C26 witness: interpretation has ended on a path whose last call is a
\* close, issued away from the origin, with numbers after it that were
\* skipped.
C26_Witness ==
    /\ ppc = "done"
    /\ context_path # <<>>
    /\ context_path[Len(context_path)].op = "close_path"
    /\ context_path[Len(context_path)].at + 1 < Len(tokens)
    /\ ~IsCommand(Tok(tokens, Len(tokens) - 1))
    /\ current_command = "None"
    /\ <<current_x, current_y>> # <<0, 0>>


RECURSIVE SubpathStart(_, _)
\* The point at which the subpath open after the first k calls started: the
\* arguments of the last move_to among them.
SubpathStart(out, k) ==
    IF k = 0 THEN <<0, 0>>
    ELSE IF out[k].op = "move_to" THEN out[k].a
    ELSE SubpathStart(out, k - 1)

\* The calls issued directly after a close_path, for the first numbers of a
\* relative letter.
AfterClose ==
    {k \in DOMAIN context_path :
        /\ k > 1
        /\ context_path[k - 1].op = "close_path"
        /\ context_path[k].op # "close_path"
        /\ Tok(tokens, context_path[k].at - 1).k \in {"m", "l", "c"}}

\* C27: the current point is the point reached by the last drawing call,
\* whatever number of close_path calls followed it, and the call for a
\* relative letter that follows a close_path takes its numbers as offsets
\* from the point reached before the close.
C27_CloseKeepsPoint ==
    /\ ppc \in {"loop", "done"} =>
          <<current_x, current_y>> = EndPoint(context_path, Len(context_path))
    /\ \A k \in AfterClose :
          context_path[k].a =
              Offset(Numbers(tokens, context_path[k].at,
                             Arity(Tok(tokens, context_path[k].at - 1).k)),
                     EndPoint(context_path, k - 2))

\* C27 witness: a relative line was drawn after a close_path of a subpath
\* whose start is not the point reached before the close.
C27_Witness ==
    /\ ppc = "done"
    /\ \E k \in AfterClose :
          /\ context_path[k].op = "line_to"
          /\ SubpathStart(context_path, k - 2) # EndPoint(context_path, k - 2)
          /\ SubpathStart(context_path, k - 2) # <<0, 0>>


\* The place in data of the lexeme that became token t (t counts from 0).
LexPos(data, t) ==
    CHOOSE j \in DOMAIN data :
        /\ data[j] # Other
        /\ Cardinality({m \in 1..j : data[m] # Other}) = t + 1

\* C29: the numbers of a move_to, line_to or curve_to call are numbers of
\* the supported letter the call was issued for: no unsupported letter
\* stands between that letter and the last number of the call.
C29_UnsupportedIgnored ==
    \A k \in DOMAIN context_path :
        context_path[k].op # "close_path" =>
            \A j \in LexPos(path_data, LetterBefore(tokens, context_path[k].at))
                     .. LexPos(path_data, context_path[k].at
                                          + Len(context_path[k].a) - 1) :
                path_data[j] # Other


TraceOps == {"rectangle", "move_to", "line_to", "curve_to", "close_path"}

\* The current path of the context after the first k calls, as the elements
\* whose geometry it holds: fill and stroke clear it, fill_preserve keeps
\* it, and close_path adds nothing to an empty path.
RECURSIVE CurrentPath(_, _)
CurrentPath(cs, k) ==
    IF k = 0 THEN {}
    ELSE IF cs[k].op \in {"fill", "stroke"} THEN {}
    ELSE IF cs[k].op \in TraceOps \ {"close_path"}
    THEN CurrentPath(cs, k - 1) \cup {cs[k].id}
    ELSE CurrentPath(cs, k - 1)

\* C24: the current path is empty after every element that has been
\* rendered, and what a fill or stroke call paints is geometry of the
\* element it is issued for alone.
C24_PathEmptyBetweenElements ==
    /\ (rpc = "render" \/ (rpc = "done" /\ png # <<>>)) =>
          CurrentPath(calls, Len(calls)) = {}
    /\ \A k \in DOMAIN calls :
          calls[k].op \in PaintOps =>
              CurrentPath(calls, k - 1) \subseteq {calls[k].id}


\* The line join of the context at call k: that of the last set_line_join
\* call before it, the miter join of a new context when there is none.
RECURSIVE JoinAt(_, _)
JoinAt(cs, k) ==
    IF k <= 1 THEN "miter"
    ELSE IF cs[k - 1].op = "set_line_join" THEN cs[k - 1].a[1]
    ELSE JoinAt(cs, k - 1)

\* The miter limit of the context at call k: <<limit>> of the last
\* set_miter_limit call before it, <<>> for the limit of a new context.
RECURSIVE MiterLimitAt(_, _)
MiterLimitAt(cs, k) ==
    IF k <= 1 THEN <<>>
    ELSE IF cs[k - 1].op = "set_miter_limit" THEN <<cs[k - 1].a[1]>>
    ELSE MiterLimitAt(cs, k - 1)

\* The line join an element asks for: miter unless it names round or bevel.
OwnJoin(e) ==
    IF StylesGet(StylesOf(e), <<"stroke", "-linejoin">>, <<>>)
       = <<"r", "o", "u", "n", "d">> THEN "round"
    ELSE IF StylesGet(StylesOf(e), <<"stroke", "-linejoin">>, <<>>)
            = <<"b", "e", "v", "e", "l">> THEN "bevel"
    ELSE "miter"

\* The miter limit an element asks for: <<>> when it names none or one that
\* is no number.
OwnMiterLimit(e) ==
    IF BadMiterLimit(e)
       \/ StylesGet(StylesOf(e), <<"stroke", "-miterlimit">>, <<>>) = <<>>
    THEN <<>>
    ELSE <<Number2(Float(StylesGet(StylesOf(e), <<"stroke", "-miterlimit">>,
                                   <<>>)))>>

\* C25: at every stroke call the line join and the miter limit of the
\* context are those the stroked element asks for, whether it is a rect or
\* a path.
C25_JoinOfOwnElement ==
    \A k \in DOMAIN calls :
        calls[k].op = "stroke" =>
            \A j \in DOMAIN elements :
                elements[j].id = calls[k].id =>
                    /\ JoinAt(calls, k) = OwnJoin(elements[j].e)
                    /\ MiterLimitAt(calls, k) = OwnMiterLimit(elements[j].e)


\* The elements an export call of one layer name copies, and their copies
\* in the file it has written.
Originals == extract_elements(doc, get_layer(doc, layer_names[1]).layer)

Copies == svg_file[1].root[1].children

\* A property map on the names of svg_style_attrs.
Recognized(styles) ==
    [name \in DOMAIN styles \cap {svg_style_attrs[k] : k \in DOMAIN svg_style_attrs}
        |-> styles[name]]

\* C28: in the file of an export call of one layer, the property map of
\* every copy equals that of the element it was copied from on every
\* recognized property.
C28_ExportKeepsStyle ==
    (svg_file # <<>> /\ Len(layer_names) = 1) =>
        \A k \in DOMAIN Originals :
            Recognized(parse_style(Copies[k].style, EmptyMap))
            = Recognized(StylesOf(Originals[k].e))


\* C30: every component of a colour that get_color has returned lies
\* between 0 and 1.
C30_ComponentsInUnitRange ==
    (cpc = "done" /\ cerr = "none" /\ color # <<<<>>>>) =>
        \A k \in 1..3 :
            /\ color[1][1][k].n >= 0
            /\ color[1][1][k].n <= color[1][1][k].d

====
